---- MODULE Spec2Model ----
(***************************************************************************)
(* Player valuation and ranking engine: name normalisation, entity         *)
(* resolution against the ADP feed, replacement value, the statistical     *)
(* adjustment layer and the unified big board.                             *)
(*                                                                         *)
(* Strings are sequences of one-character strings.  Point quantities are   *)
(* fixed-point integers; the unit of each is stated where it is defined.   *)
(***************************************************************************)
EXTENDS Integers, Sequences, FiniteSets, TLC

VARIABLES
    \* exercising the name normalisers
    nm_fn,        \* which normaliser is being exercised
    nm_arg,       \* the argument of the most recent call
    nm_val,       \* the value returned by the most recent call
    nm_calls,     \* number of calls made so far
    \* the valuation pipeline
    entry,        \* which entry point is running
    cur_league_size,  \* the league_size argument
    cur_df,           \* the player table being annotated
    cur_baselines,    \* replacement baseline of each position
    cur_order,        \* sorted list of each position used for opportunity cost
    pc,           \* the stage the run is at
    \* entity resolution
    rs_fn,        \* which resolver is running
    rs_board,     \* big_board_df
    rs_adp,       \* adp_df as get_average_adp returns it
    rs_queries,   \* the names to resolve (build_name_map, fuzzy_merge)
    rs_choices,   \* the names to resolve against (build_name_map, fuzzy_merge)
    rs_sim,       \* fuzz.ratio on unequal normalised names, as the call met it
    rs_scored,    \* the queries handed to process.extractOne
    rs_result,    \* what the resolver returned
    rs_pc,        \* "call", "done" or "raised"
    \* the value tiers
    tv_column,    \* a league_size_adjusted_diff column: cells [diff, side]
    tv_color,     \* the value_color column
    tv_recommendation,  \* the value_recommendation column
    tv_pc,        \* "idle", "call", "colored" or "done"
    \* a run of main()
    mn_env,       \* what the collaborators of this run do
    mn_pc,        \* the statement main() is at
    mn_table,     \* the analysis stages the table of the run has been through
    mn_board,     \* the board export_to_excel has written, if any
    mn_log,       \* the messages printed
    mn_caller     \* what the caller of main() gets

nm_vars == <<nm_fn, nm_arg, nm_val, nm_calls>>
board_vars == <<entry, cur_league_size, cur_df, cur_baselines, cur_order, pc>>
rs_vars == <<rs_fn, rs_board, rs_adp, rs_queries, rs_choices, rs_sim, rs_scored,
             rs_result, rs_pc>>
tv_vars == <<tv_column, tv_color, tv_recommendation, tv_pc>>
mn_vars == <<mn_env, mn_pc, mn_table, mn_board, mn_log, mn_caller>>
vars == <<nm_vars, board_vars, rs_vars, tv_vars, mn_vars>>

-----------------------------------------------------------------------------
(* Generic helpers on sequences                                            *)

RECURSIVE Concat(_)
Concat(ss) == IF ss = <<>> THEN <<>> ELSE Head(ss) \o Concat(Tail(ss))

RECURSIVE FilterSeq(_, _)
FilterSeq(s, drop) ==
    IF s = <<>> THEN <<>>
    ELSE IF Head(s) \in drop THEN FilterSeq(Tail(s), drop)
         ELSE <<Head(s)>> \o FilterSeq(Tail(s), drop)

StartsWith(s, p) == Len(s) >= Len(p) /\ SubSeq(s, 1, Len(p)) = p

EndsWith(s, p) == Len(s) >= Len(p) /\ SubSeq(s, Len(s) - Len(p) + 1, Len(s)) = p

-----------------------------------------------------------------------------
(* Python string primitives used by the normalisers                        *)

UpperCase == <<"A","B","C","D","E","F","G","H","I","J","K","L","M",
               "N","O","P","Q","R","S","T","U","V","W","X","Y","Z">>
LowerCase == <<"a","b","c","d","e","f","g","h","i","j","k","l","m",
               "n","o","p","q","r","s","t","u","v","w","x","y","z">>
Digits == {"0","1","2","3","4","5","6","7","8","9"}
Whitespace == {" ", "\t"}

LowerChar(c) ==
    IF \E k \in 1..26 : UpperCase[k] = c
    THEN LowerCase[CHOOSE k \in 1..26 : UpperCase[k] = c]
    ELSE c

\* str.lower()
Lower(s) == [k \in 1..Len(s) |-> LowerChar(s[k])]

RECURSIVE LStrip(_)
LStrip(s) == IF s # <<>> /\ Head(s) \in Whitespace THEN LStrip(Tail(s)) ELSE s

RECURSIVE RStrip(_)
RStrip(s) ==
    IF s # <<>> /\ s[Len(s)] \in Whitespace THEN RStrip(SubSeq(s, 1, Len(s) - 1)) ELSE s

\* str.strip()
Strip(s) == RStrip(LStrip(s))

\* ' '.join(s.split()) and re.sub(r'\s+', ' ', s).strip(): every run of
\* whitespace becomes one space, leading and trailing whitespace is dropped
RECURSIVE CollapseRuns(_)
CollapseRuns(s) ==
    IF s = <<>> THEN <<>>
    ELSE IF Head(s) \in Whitespace
         THEN <<" ">> \o CollapseRuns(LStrip(s))
         ELSE <<Head(s)>> \o CollapseRuns(Tail(s))

SplitJoin(s) == CollapseRuns(Strip(s))

\* str.replace(c, to) for a one-character pattern c
ReplaceChar(s, c, to) == Concat([k \in 1..Len(s) |-> IF s[k] = c THEN to ELSE <<s[k]>>])

\* str(name) for the values a name cell can hold
PyStr(v) ==
    CASE v.kind = "None" -> <<"N","o","n","e">>
      [] v.kind = "NaN"  -> <<"n","a","n">>
      [] OTHER           -> v.s

Str(s) == [kind |-> "str", s |-> s]

-----------------------------------------------------------------------------
(* adp_comparison.normalize_player_name                                    *)

suffixes == << <<" ","i","i">>, <<" ","i","i","i">>, <<" ","i","v">>,
               <<" ","j","r",".">>, <<" ","s","r",".">>,
               <<" ","j","r">>, <<" ","s","r">> >>

\* the dict literal as Python builds it: keys in first-insertion order, each
\* with the last value written for it
name_variations == <<
   <<<<"j","i","m","m","y">>, <<"j","a","m","e","s">>>>,
   <<<<"j","i","m">>, <<"j","a","m","e","s">>>>,
   <<<<"m","i","k","e">>, <<"m","i","c","h","a","e","l">>>>,
   <<<<"m","i","k","e","y">>, <<"m","i","c","h","a","e","l">>>>,
   <<<<"c","h","r","i","s">>, <<"c","h","r","i","s","t","o","p","h","e","r">>>>,
   <<<<"n","i","c","k">>, <<"n","i","c","h","o","l","a","s">>>>,
   <<<<"j","o","e">>, <<"j","o","s","e","p","h">>>>,
   <<<<"j","o","s","h">>, <<"j","o","s","h","u","a">>>>,
   <<<<"d","a","v","e">>, <<"d","a","v","i","d">>>>,
   <<<<"d","a","v","e","y">>, <<"d","a","v","i","d">>>>,
   <<<<"r","o","b">>, <<"r","o","b","e","r","t">>>>,
   <<<<"b","o","b","b","y">>, <<"r","o","b","e","r","t">>>>,
   <<<<"b","o","b">>, <<"r","o","b","e","r","t">>>>,
   <<<<"t","o","m">>, <<"t","h","o","m","a","s">>>>,
   <<<<"t","o","m","m","y">>, <<"t","h","o","m","a","s">>>>,
   <<<<"d","a","n">>, <<"d","a","n","i","e","l">>>>,
   <<<<"d","a","n","n","y">>, <<"d","a","n","i","e","l">>>>,
   <<<<"s","a","m">>, <<"s","a","m","u","e","l">>>>,
   <<<<"s","a","m","m","i","e">>, <<"s","a","m","u","e","l">>>>,
   <<<<"a","l","e","x">>, <<"a","l","e","x","a","n","d","e","r">>>>,
   <<<<"m","a","t","t">>, <<"m","a","t","t","h","e","w">>>>,
   <<<<"n","a","t","e">>, <<"n","a","t","h","a","n","i","e","l">>>>,
   <<<<"b","e","n">>, <<"b","e","n","j","a","m","i","n">>>>,
   <<<<"b","e","n","n","y">>, <<"b","e","n","j","a","m","i","n">>>>,
   <<<<"a","n","d","y">>, <<"a","n","d","r","e","w">>>>,
   <<<<"d","r","e","w">>, <<"a","n","d","r","e","w">>>>,
   <<<<"t","o","n","y">>, <<"a","n","t","h","o","n","y">>>>,
   <<<<"a","n","t">>, <<"a","n","t","h","o","n","y">>>>,
   <<<<"s","t","e","v","e">>, <<"s","t","e","v","e","n">>>>,
   <<<<"b","r","i","a","n">>, <<"b","r","y","a","n">>>>,
   <<<<"p","h","i","l">>, <<"p","h","i","l","l","i","p">>>>,
   <<<<"j","e","f","f">>, <<"j","e","f","f","r","e","y">>>>,
   <<<<"g","r","e","g">>, <<"g","r","e","g","o","r","y">>>>,
   <<<<"k","e","v","i","n">>, <<"k","e","v","i","n">>>>,
   <<<<"k","e","v">>, <<"k","e","v","i","n">>>>,
   <<<<"m","a","r","k">>, <<"m","a","r","k">>>>,
   <<<<"m","a","r","c">>, <<"m","a","r","k">>>>,
   <<<<"j","o","h","n">>, <<"j","o","h","n">>>>,
   <<<<"j","o","n">>, <<"j","o","h","n">>>>,
   <<<<"j","o","n","n","y">>, <<"j","o","h","n">>>>,
   <<<<"j","o","h","n","n","y">>, <<"j","o","h","n">>>>,
   <<<<"b","i","l","l">>, <<"w","i","l","l","i","a","m">>>>,
   <<<<"b","i","l","l","y">>, <<"w","i","l","l","i","a","m">>>>,
   <<<<"w","i","l","l">>, <<"w","i","l","l","i","a","m">>>>,
   <<<<"w","i","l","l","i","e">>, <<"w","i","l","l","i","a","m">>>>,
   <<<<"r","i","c","k">>, <<"r","i","c","h","a","r","d">>>>,
   <<<<"r","i","c","k","y">>, <<"r","i","c","h","a","r","d">>>>,
   <<<<"d","i","c","k">>, <<"r","i","c","h","a","r","d">>>>,
   <<<<"r","i","c","h">>, <<"r","i","c","h","a","r","d">>>>,
   <<<<"r","o","n">>, <<"r","o","n","a","l","d">>>>,
   <<<<"r","o","n","n","i","e">>, <<"r","o","n","a","l","d">>>>,
   <<<<"k","e","n">>, <<"k","e","n","n","e","t","h">>>>,
   <<<<"k","e","n","n","y">>, <<"k","e","n","n","e","t","h">>>>,
   <<<<"g","a","r","y">>, <<"g","a","r","y">>>>,
   <<<<"l","a","r","r","y">>, <<"l","a","w","r","e","n","c","e">>>>,
   <<<<"j","e","r","r","y">>, <<"j","e","r","r","y">>>>,
   <<<<"t","e","r","r","y">>, <<"t","e","r","r","y">>>>,
   <<<<"h","a","r","r","y">>, <<"h","a","r","r","y">>>>,
   <<<<"b","a","r","r","y">>, <<"b","a","r","r","y">>>>,
   <<<<"p","e","r","r","y">>, <<"p","e","r","r","y">>>>,
   <<<<"k","e","r","r","y">>, <<"k","e","r","r","y">>>>,
   <<<<"d","e","r","r","y">>, <<"d","e","r","r","y">>>>,
   <<<<"c","h","e","r","r","y">>, <<"c","h","e","r","r","y">>>>,
   <<<<"s","h","e","r","r","y">>, <<"s","h","e","r","r","y">>>>,
   <<<<"m","e","r","r","y">>, <<"m","e","r","r","y">>>>,
   <<<<"f","e","r","r","y">>, <<"f","e","r","r","y">>>>,
   <<<<"b","e","r","r","y">>, <<"b","e","r","r","y">>>>
>>

RECURSIVE StripSuffixes(_, _)
StripSuffixes(name, k) ==
    IF k > Len(suffixes) THEN name
    ELSE IF EndsWith(name, suffixes[k])
         THEN StripSuffixes(SubSeq(name, 1, Len(name) - Len(suffixes[k])), k + 1)
         ELSE StripSuffixes(name, k + 1)

RECURSIVE ApplyVariations(_, _)
ApplyVariations(name, k) ==
    IF k > Len(name_variations) THEN name
    ELSE LET short == name_variations[k][1] \o <<" ">>
             full  == name_variations[k][2] \o <<" ">>
         IN IF StartsWith(name, short)
            THEN ApplyVariations(full \o SubSeq(name, Len(short) + 1, Len(name)), k + 1)
            ELSE ApplyVariations(name, k + 1)

RemovePunctuation(name) ==
    ReplaceChar(ReplaceChar(ReplaceChar(name, ".", <<>>), ",", <<>>), "-", <<" ">>)

normalize_player_name(v) ==
    IF v.kind # "str" THEN <<>>
    ELSE LET lowered  == Strip(Lower(PyStr(v)))
             stripped == StripSuffixes(lowered, 1)
             spaced   == SplitJoin(stripped)
             cleaned  == RemovePunctuation(spaced)
         IN ApplyVariations(cleaned, 1)

-----------------------------------------------------------------------------
(* main.normalize_name (the same function is repeated in join_proj_actuals) *)

SuffixTokens == { <<"j","r">>, <<"s","r">>, <<"i","i">>, <<"i","i","i">>,
                  <<"i","v">>, <<"v">> }

\* \w of the regular expression
IsWordChar(c) ==
    \/ \E k \in 1..26 : c = LowerCase[k] \/ c = UpperCase[k]
    \/ c \in Digits
    \/ c = "_"

RECURSIVE WordRun(_)
WordRun(s) == IF s # <<>> /\ IsWordChar(Head(s)) THEN 1 + WordRun(Tail(s)) ELSE 0

\* re.sub(r'\b(jr|sr|ii|iii|iv|v)\b', '', s): a maximal run of word
\* characters is deleted exactly when the whole run is one of the tokens
RECURSIVE RemoveSuffixTokens(_)
RemoveSuffixTokens(s) ==
    IF s = <<>> THEN <<>>
    ELSE IF IsWordChar(Head(s))
         THEN LET n == WordRun(s)
                  word == SubSeq(s, 1, n)
                  rest == RemoveSuffixTokens(SubSeq(s, n + 1, Len(s)))
              IN IF word \in SuffixTokens THEN rest ELSE word \o rest
         ELSE <<Head(s)>> \o RemoveSuffixTokens(Tail(s))

\* re.sub(r'[^a-z ]', '', s)
RECURSIVE KeepLettersAndSpaces(_)
KeepLettersAndSpaces(s) ==
    IF s = <<>> THEN <<>>
    ELSE IF Head(s) = " " \/ \E k \in 1..26 : Head(s) = LowerCase[k]
         THEN <<Head(s)>> \o KeepLettersAndSpaces(Tail(s))
         ELSE KeepLettersAndSpaces(Tail(s))

normalize_name(v) ==
    SplitJoin(KeepLettersAndSpaces(RemoveSuffixTokens(Lower(PyStr(v)))))

-----------------------------------------------------------------------------
(* Player tables (DataFrames).  A table is the sequence of its rows in     *)
(* positional order; a row is a record whose domain is the set of columns  *)
(* it carries.  Column "idx" is the row's index label.                     *)

NaN == "NaN"
\* pd.isna on a cell that holds either a number or NaN
isna(v) == ToString(v) = ToString(NaN)

\* row.get(col, default)
Get(row, col, default) == IF col \in DOMAIN row THEN row[col] ELSE default

\* row with column col set to val
With(row, col, val) == (col :> val) @@ row

Frac(n, d) == [num |-> n, den |-> d]

Positions == {"QB", "RB", "WR", "TE"}

\* positions (1..Len(df)) of the rows of one position: df[df['position'] == position]
RowsOf(df, position) == { i \in 1..Len(df) : df[i].position = position }

RECURSIVE SumOver(_, _)
SumOver(S, f) ==
    IF S = {} THEN 0
    ELSE LET x == CHOOSE y \in S : TRUE IN f[x] + SumOver(S \ {x}, f)

\* sort_values(key, ascending=False) with the default, unstable, sort kind:
\* every arrangement in descending key order is a possible outcome
RECURSIVE SortDescOutcomes(_, _)
SortDescOutcomes(S, key) ==
    IF S = {} THEN { <<>> }
    ELSE LET top == { x \in S : \A y \in S : key[x] >= key[y] }
         IN UNION { { <<m>> \o rest : rest \in SortDescOutcomes(S \ {m}, key) } : m \in top }

\* sort_values(key) ascending, same sort kind
RECURSIVE SortAscOutcomes(_, _)
SortAscOutcomes(S, key) ==
    IF S = {} THEN { <<>> }
    ELSE LET low == { x \in S : \A y \in S : key[x] <= key[y] }
         IN UNION { { <<m>> \o rest : rest \in SortAscOutcomes(S \ {m}, key) } : m \in low }

\* the key values in descending order (the same for every outcome of the sort)
DescValues(S, key) ==
    LET p == CHOOSE q \in SortDescOutcomes(S, key) : TRUE
    IN [k \in 1..Cardinality(S) |-> key[p[k]]]

\* Series.median(): NaN for an empty series, the mean of the two middle
\* values for an even count (exact here: point values are even whole numbers)
Median(S, key) ==
    LET n == Cardinality(S)
        v == DescValues(S, key)
    IN IF n = 0 THEN NaN
       ELSE IF n % 2 = 1 THEN v[(n + 1) \div 2]
       ELSE (v[n \div 2] + v[n \div 2 + 1]) \div 2

RawPoints(df) == [i \in 1..Len(df) |-> df[i].raw_fantasy_points]

-----------------------------------------------------------------------------
(* vbd_optimizer: replacement baselines, VOR, opportunity cost             *)
(* raw_fantasy_points, baselines, vor and opportunity_cost are in whole    *)
(* points                                                                  *)

\* variant: the cutoff counted one place too far
baseline_idx_one_past(position, league_size) ==
    IF position \in {"QB", "TE"} THEN league_size ELSE 2 * league_size

\* 0-based position of the replacement player in the descending list
baseline_idx(position, league_size) ==
    IF position \in {"QB", "TE"} THEN league_size - 1 ELSE 2 * league_size - 1

calculate_replacement_baselines(df, league_size) ==
    [position \in Positions |->
        LET pos_df == RowsOf(df, position)
            sorted == DescValues(pos_df, RawPoints(df))
            idx    == baseline_idx(position, league_size)
        IN IF Cardinality(pos_df) > idx
           THEN sorted[idx + 1]
           ELSE Median(pos_df, RawPoints(df))]

\* variant: the subtraction the other way round
row_vor_reversed(row, baselines) ==
    IF row.position \in Positions
    THEN baselines[row.position] - row.raw_fantasy_points
    ELSE 0

row_vor(row, baselines) ==
    IF row.position \in Positions
    THEN row.raw_fantasy_points - baselines[row.position]
    ELSE 0

calculate_vor(df, baselines) ==
    [i \in 1..Len(df) |-> With(df[i], "vor", row_vor(df[i], baselines))]

Vor(df) == [i \in 1..Len(df) |-> df[i].vor]

\* drop-off of the row at place k of the position's sorted list pos_df
drop_off(df, pos_df, k) == df[pos_df[k]].vor - df[pos_df[k + 1]].vor

\* variant: the last player of a position keeps its own vor
row_opportunity_cost_unbounded(df, order, i) ==
    LET pos_df == order[df[i].position]
        k == CHOOSE j \in 1..Len(pos_df) : pos_df[j] = i
    IN IF Len(pos_df) > 1 /\ k < Len(pos_df) THEN drop_off(df, pos_df, k) ELSE df[i].vor

\* opportunity cost of row i, given the sorted list of each position
row_opportunity_cost(df, order, i) ==
    LET pos_df == order[df[i].position]
        k == CHOOSE j \in 1..Len(pos_df) : pos_df[j] = i
    IN IF Len(pos_df) > 1 /\ k < Len(pos_df) THEN drop_off(df, pos_df, k) ELSE 0

\* the sorted lists the per-position sort_values('vor', ascending=False) can give
vor_orders(df_vor) ==
    LET outcomes == [p \in Positions |-> SortDescOutcomes(RowsOf(df_vor, p), Vor(df_vor))]
    IN { ("QB" :> qb) @@ ("RB" :> rb) @@ ("WR" :> wr) @@ ("TE" :> te) :
           qb \in outcomes["QB"], rb \in outcomes["RB"],
           wr \in outcomes["WR"], te \in outcomes["TE"] }

\* the tables calculate_opportunity_cost can return, each with the sorted
\* lists that produced it
calculate_opportunity_cost(df_vor) ==
    { [order |-> order,
       df |-> [i \in 1..Len(df_vor) |->
                 With(df_vor[i], "opportunity_cost",
                      IF df_vor[i].position \in Positions
                      THEN row_opportunity_cost(df_vor, order, i) ELSE 0)]] :
      order \in vor_orders(df_vor) }

\* Series.min() and Series.max() of a column of numbers
ColumnMin(df, col) ==
    CHOOSE v \in { df[i][col] : i \in 1..Len(df) } : \A i \in 1..Len(df) : v <= df[i][col]
ColumnMax(df, col) ==
    CHOOSE v \in { df[i][col] : i \in 1..Len(df) } : \A i \in 1..Len(df) : v >= df[i][col]

\* (value - min) / (max - min), element by element: the quotient, and NaN
\* for 0 / 0 (float division of a Series does not raise)
min_max_normalized(value, min, max) ==
    IF max = min THEN NaN ELSE Frac(value - min, max - min)

\* a * vor_weight + b * oc_weight with the default weights 0.7 and 0.3; NaN
\* when either is NaN
weighted_sum(a, b) ==
    IF isna(a) \/ isna(b) THEN NaN
    ELSE Frac(7 * a.num * b.den + 3 * b.num * a.den, 10 * a.den * b.den)

\* calculate_optimal_value(df_oc)
calculate_optimal_value(df_oc) ==
    [i \in 1..Len(df_oc) |->
        LET vor_normalized ==
                min_max_normalized(df_oc[i].vor, ColumnMin(df_oc, "vor"), ColumnMax(df_oc, "vor"))
            oc_normalized ==
                min_max_normalized(df_oc[i].opportunity_cost,
                                   ColumnMin(df_oc, "opportunity_cost"),
                                   ColumnMax(df_oc, "opportunity_cost"))
        IN ("vor_normalized" :> vor_normalized) @@
           ("oc_normalized" :> oc_normalized) @@
           ("optimal_value" :> weighted_sum(vor_normalized, oc_normalized)) @@
           df_oc[i]]

-----------------------------------------------------------------------------
(* main: the VOR / scarcity stage                                          *)

DefaultLeagueSize == 12

\* scarcity_factors, in hundredths
scarcity_factor(position) ==
    CASE position = "QB" -> 100
      [] position = "RB" -> 105
      [] position = "WR" -> 102
      [] position = "TE" -> 108
      [] OTHER -> 100

\* vor_scarcity_adjusted and vor_final are in hundredths of a point
vor_scarcity_stage(df) ==
    LET baselines == calculate_replacement_baselines(df, DefaultLeagueSize)
        df_vor == calculate_vor(df, baselines)
    IN [i \in 1..Len(df) |->
          LET f == scarcity_factor(df_vor[i].position)
              adj == df_vor[i].vor * f
          IN ("scarcity_factor" :> f) @@ ("vor_scarcity_adjusted" :> adj) @@
             ("sos_factor" :> 100) @@ ("vor_final" :> adj) @@ df_vor[i]]
-----------------------------------------------------------------------------
(* individual_optimizer: the statistical adjustment layer                  *)
(* risk_score, upside_potential, projection_uncertainty and the stored     *)
(* consistency_score are in hundredths; quotients are kept as fractions    *)

RECURSIVE Contains(_, _)
Contains(s, sub) ==
    IF Len(s) < Len(sub) THEN FALSE
    ELSE StartsWith(s, sub) \/ Contains(Tail(s), sub)

RookieKeywords == { <<"J","r",".">>, <<"I","I","I">>, <<"I","V">>, <<"V">> }

\* any(keyword in row['player_id'] for keyword in ['Jr.', 'III', 'IV', 'V'])
has_rookie_keyword(player_id) == \E keyword \in RookieKeywords : Contains(player_id, keyword)

NewSystemTeams == {"WAS", "NE", "CHI"}
StableTeams == {"KC", "BUF", "CIN"}
ConsistentTeams == {"KC", "BUF", "CIN", "PHI"}

\* calculate_advanced_statistical_metrics, one position group
\* z_score: NaN when the standard deviation is undefined (one player) or zero
\* (0/0); otherwise the exact value dev / sqrt(ss), kept symbolically
advanced_metrics_row(df, i) ==
    LET pos_df == RowsOf(df, df[i].position)
        n   == Cardinality(pos_df)
        pts == df[i].raw_fantasy_points
        sum == SumOver(pos_df, RawPoints(df))
        sq  == SumOver(pos_df, [j \in 1..Len(df) |-> df[j].raw_fantasy_points * df[j].raw_fantasy_points])
        ss  == n * sq - sum * sum
        mx  == DescValues(pos_df, RawPoints(df))[1]
        less  == Cardinality({ j \in pos_df : df[j].raw_fantasy_points < pts })
        equal == Cardinality({ j \in pos_df : df[j].raw_fantasy_points = pts })
    IN ("z_score" :> (IF n < 2 \/ ss = 0 THEN NaN
                      ELSE [dev |-> n * pts - sum, ss |-> ss, n |-> n])) @@
       ("position_percentile" :> Frac(100 * (2 * less + equal + 1), 2 * n)) @@
       ("consistency_score" :> (IF mx = 0 THEN NaN ELSE Frac(mx - pts, mx))) @@
       df[i]

calculate_advanced_statistical_metrics(df) ==
    [i \in 1..Len(df) |->
        IF df[i].position \in Positions THEN advanced_metrics_row(df, i) ELSE df[i]]

\* the accumulated (unclamped) risk score of a row
risk_score_of(row) ==
    (CASE row.position = "RB" -> 30
       [] row.position = "QB" -> 10
       [] row.position = "WR" -> 20
       [] row.position = "TE" -> 25
       [] OTHER -> 0)
    + (IF row.raw_fantasy_points > 300 THEN 20 ELSE 0)
    + (IF has_rookie_keyword(row.player_id) THEN 20 ELSE 0)
    + (IF row.team \in NewSystemTeams THEN 15
       ELSE IF row.team \in StableTeams THEN -10 ELSE 0)

\* the accumulated (unclamped) upside potential of a row
upside_potential_of(row) ==
    (CASE row.position = "RB" -> 20
       [] row.position = "QB" -> 30
       [] row.position = "WR" -> 40
       [] row.position = "TE" -> 10
       [] OTHER -> 0)
    + (IF row.raw_fantasy_points > 300 THEN 10 ELSE 0)
    + (IF has_rookie_keyword(row.player_id) THEN 30 ELSE 0)
    + (IF row.team \in NewSystemTeams THEN 0
       ELSE IF row.team \in StableTeams THEN 10 ELSE 0)

Min(a, b) == IF a <= b THEN a ELSE b
Max(a, b) == IF a >= b THEN a ELSE b

\* what is stored in the risk_score column: min(risk_score, 1.0)
stored_risk_score(risk_score) == Min(risk_score, 100)

\* what is stored in the upside_potential column: min(upside_potential, 1.0)
stored_upside_potential(upside_potential) == Min(upside_potential, 100)

calculate_risk_adjusted_value(df) ==
    [i \in 1..Len(df) |->
        LET row == df[i]
            risk_score == risk_score_of(row)
            upside_potential == upside_potential_of(row)
            sharpe_ratio == IF risk_score > 0
                            THEN Frac(row.raw_fantasy_points, risk_score)
                            ELSE Frac(row.raw_fantasy_points, 10)
        IN ("risk_score" :> stored_risk_score(risk_score)) @@
           ("upside_potential" :> stored_upside_potential(upside_potential)) @@
           ("sharpe_ratio" :> sharpe_ratio) @@
           ("risk_adjusted_value" :>
               Frac(row.raw_fantasy_points * (100 + upside_potential) * (200 - risk_score),
                    20000)) @@
           row]

projection_uncertainty_of(row) ==
    30 + (IF has_rookie_keyword(row.player_id) THEN 20 ELSE 0)
       + (IF row.team \in NewSystemTeams THEN 10 ELSE 0)

\* calculate_bayesian_adjustments: prior mean = sum / n of the position;
\* the prior's std enters confidence_interval only, kept symbolically
calculate_bayesian_adjustments(df) ==
    [i \in 1..Len(df) |->
        LET row == df[i]
            known == row.position \in Positions
            pos_df == RowsOf(df, row.position)
            n   == IF known THEN Cardinality(pos_df) ELSE 1
            sum == IF known THEN SumOver(pos_df, RawPoints(df)) ELSE 200
            sq  == SumOver(pos_df, [j \in 1..Len(df) |-> df[j].raw_fantasy_points * df[j].raw_fantasy_points])
            u   == projection_uncertainty_of(row)
            posterior == Frac(row.raw_fantasy_points * (100 - u) * n + sum * u, 100 * n)
        IN ("bayesian_projection" :> posterior) @@
           ("projection_uncertainty" :> u) @@
           ("confidence_interval" :>
               (IF ~known THEN Frac(50 * u, 100)
                ELSE IF n < 2 THEN NaN
                ELSE [std_ss |-> n * sq - sum * sum, n |-> n, u |-> u])) @@
           ("bayesian_value" :> Frac(posterior.num * (200 - u), posterior.den * 200)) @@
           row]

\* the accumulated (unclamped) consistency score of a row
consistency_score_of(row) ==
    50
    + (CASE row.position = "QB" -> 20
         [] row.position = "WR" -> 10
         [] row.position = "RB" -> -10
         [] row.position = "TE" -> -20
         [] OTHER -> 0)
    + (IF 200 <= row.raw_fantasy_points /\ row.raw_fantasy_points <= 350 THEN 10
       ELSE IF row.raw_fantasy_points > 400 THEN -10 ELSE 0)
    + (IF has_rookie_keyword(row.player_id) THEN -20 ELSE 10)
    + (IF row.team \in ConsistentTeams THEN 10
       ELSE IF row.team \in NewSystemTeams THEN -10 ELSE 0)

\* variant: the lower clamp left out
stored_consistency_score_no_floor(consistency_score) == Min(100, consistency_score)

\* what is stored in the consistency_score column: max(0.0, min(1.0, score))
stored_consistency_score(consistency_score) == Max(0, Min(100, consistency_score))

calculate_consistency_metrics(df) ==
    [i \in 1..Len(df) |->
        LET row == df[i]
            consistency_score == consistency_score_of(row)
        IN ("consistency_score" :> stored_consistency_score(consistency_score)) @@
           ("consistency_adjusted_value" :>
               Frac(row.raw_fantasy_points * (500 + consistency_score), 500)) @@
           row]

-----------------------------------------------------------------------------
(* individual_optimizer: composite score and rank                          *)
(* unified_big_board_score is in units of 1/2,000,000 point: the position  *)
(* factor in fiftieths, the weighted sum in 1/40,000.  Inputs in whole     *)
(* points, injury_weight and mc_probability_above_avg in hundredths,       *)
(* vor_final in hundredths.                                                *)

vor_weight(position) ==
    CASE position = "QB" -> 40
      [] position = "RB" -> 40
      [] position = "WR" -> 60
      [] position = "TE" -> 35
      [] OTHER -> 30

scarcity_boost(position) ==
    CASE position = "QB" -> 120
      [] position = "RB" -> 105
      [] position = "WR" -> 125
      [] position = "TE" -> 115
      [] OTHER -> 100

position_factor(position) ==
    CASE position = "QB" -> 110
      [] position = "RB" -> 100
      [] position = "WR" -> 120
      [] position = "TE" -> 112
      [] OTHER -> 100

\* multiplier of mc_volatility, in tenths
volatility_multiplier(position) ==
    CASE position = "QB" -> 40
      [] position = "RB" -> 25
      [] position = "WR" -> 18
      [] position = "TE" -> 10
      [] OTHER -> 0

\* vor_norm = max(vor_final, 0)
vor_norm(vor_final) == Max(vor_final, 0)

\* variant: the point estimate read from raw_fantasy_points although
\* efficiency_adjusted_points is present
injury_adjusted_points_from_raw(row) ==
    Get(row, "raw_fantasy_points", 0) * (400 + Get(row, "injury_weight", 100))

\* variant: an absent injury_weight read as 0.0
injury_adjusted_points_zero_weight(row) ==
    Get(row, "efficiency_adjusted_points", Get(row, "raw_fantasy_points", 0))
        * (400 + Get(row, "injury_weight", 0))

\* injury_adjusted_points in 1/500 point:
\* efficiency_adjusted_points * (1 - (1 - injury_weight) * 0.2)
injury_adjusted_points(row) ==
    Get(row, "efficiency_adjusted_points", Get(row, "raw_fantasy_points", 0))
        * (400 + Get(row, "injury_weight", 100))

unified_score(row) ==
    LET iap  == injury_adjusted_points(row)
        mc(col) == IF col \in DOMAIN row THEN 500 * row[col] ELSE iap
        \* the point terms, in 1/10,000 point; the division is exact when
        \* injury_weight is a multiple of 0.05, as it is in every table here
        points == (20 * iap + 10 * mc("mc_mean") + 2 * mc("mc_median")
                   + mc("mc_25th_percentile") + mc("mc_75th_percentile")) \div 5
        prob   == 150 * Get(row, "mc_probability_above_avg", 50)
        upside == 600 * Get(row, "mc_upside_potential", 0)
        volatility_penalty == 1000 * volatility_multiplier(row.position)
                                   * Get(row, "mc_volatility", 0)
        \* vor_norm * vor_weight * scarcity_boost, in 1/40,000 point
        \* (vor_weight * scarcity_boost is a multiple of 25 for every position)
        vor_term == vor_norm(Get(row, "vor_final", 0))
                      * ((vor_weight(row.position) * scarcity_boost(row.position)) \div 25)
        total == 4 * (points + prob + upside - volatility_penalty) + vor_term
    IN (position_factor(row.position) \div 2) * total

Scores(df) == [i \in 1..Len(df) |-> df[i].unified_big_board_score]

\* variant: method='max', a tie group takes the last of its places
rank_max_desc(values, i) ==
    Cardinality({ j \in DOMAIN values : values[j] >= values[i] })

\* variant: method='dense', no value skipped after a tie group
rank_dense_desc(values, i) ==
    1 + Cardinality({ values[j] : j \in { k \in DOMAIN values : values[k] > values[i] } })

\* Series.rank(ascending=False, method='min') of the value at place i
rank_min_desc(values, i) ==
    1 + Cardinality({ j \in DOMAIN values : values[j] > values[i] })

\* the per-row loop of calculate_unified_big_board_score and the rank column
score_and_rank(df) ==
    LET scored == [i \in 1..Len(df) |->
                     With(df[i], "unified_big_board_score", unified_score(df[i]))]
    IN [i \in 1..Len(df) |->
          With(scored[i], "unified_rank", rank_min_desc(Scores(scored), i))]

Ranks(df) == [i \in 1..Len(df) |-> df[i].unified_rank]

\* the tables df.sort_values('unified_rank') can return
sort_by_unified_rank(df) ==
    { [k \in 1..Len(df) |-> df[p[k]]] : p \in SortAscOutcomes(1..Len(df), Ranks(df)) }
-----------------------------------------------------------------------------
(* Entity resolution                                                       *)
(* adp is in tenths of a draft position; unified_rank is a whole number.   *)
(* fuzz.ratio is the library's scorer: a whole number 0..100 that is 100   *)
(* exactly when the two strings are equal; its value on unequal strings is *)
(* an input (sim).                                                         *)

Ratio(sim, query, choice) == IF query = choice THEN 100 ELSE sim[<<query, choice>>]

\* process.extractOne(query, choices, scorer=fuzz.ratio): the first choice of
\* the highest score, with its score and place; None for no choices
extractOne(sim, query, choices) ==
    IF choices = <<>> THEN [found |-> FALSE]
    ELSE LET best == CHOOSE k \in 1..Len(choices) :
                        /\ \A j \in 1..Len(choices) :
                              Ratio(sim, query, choices[j]) <= Ratio(sim, query, choices[k])
                        /\ \A j \in 1..(k - 1) :
                              Ratio(sim, query, choices[j]) < Ratio(sim, query, choices[k])
         IN [found |-> TRUE, match |-> choices[best],
             score |-> Ratio(sim, query, choices[best]), idx |-> best]

AdpThreshold == 95
StrictThreshold == 98
NameMapThreshold == 90
MergeThreshold == 85
\* the rank-difference limits, in tenths
DivergenceLimit == 500
ExactWarnLimit == 1000

\* variant: one point below the threshold is enough
meets_threshold_minus_one(score, threshold) == score >= threshold - 1

\* a best match is taken only at or above the stage's threshold
meets_threshold(score, threshold) == score >= threshold

\* variant: the boundary values 1.0 and 200.0 are dropped as well
is_clean_adp_exclusive(adp) == ~isna(adp) /\ adp > 10 /\ adp < 2000

\* (adp >= 1) & (adp <= 200) & adp.notna()
is_clean_adp(adp) == ~isna(adp) /\ adp >= 10 /\ adp <= 2000

\* validate_adp_data: the rows with 1 <= adp <= 200, in their order
RECURSIVE validate_adp_data(_)
validate_adp_data(adp_df) ==
    IF adp_df = <<>> THEN <<>>
    ELSE LET row == Head(adp_df)
         IN (IF is_clean_adp(row.adp) THEN <<row>> ELSE <<>>)
              \o validate_adp_data(Tail(adp_df))

\* dict(zip(normalized_name, adp)): keys in order of first appearance ...
RECURSIVE adp_dict_keys(_)
adp_dict_keys(clean_adp_df) ==
    IF clean_adp_df = <<>> THEN <<>>
    ELSE LET before == adp_dict_keys(SubSeq(clean_adp_df, 1, Len(clean_adp_df) - 1))
             name == clean_adp_df[Len(clean_adp_df)].normalized_name
         IN IF \E k \in 1..Len(before) : before[k] = name THEN before
            ELSE Append(before, name)

\* ... each with the adp of the last row that carries it
adp_dict_get(clean_adp_df, name) ==
    LET last == CHOOSE k \in 1..Len(clean_adp_df) :
                   /\ clean_adp_df[k].normalized_name = name
                   /\ \A j \in (k + 1)..Len(clean_adp_df) :
                         clean_adp_df[j].normalized_name # name
    IN clean_adp_df[last].adp

InKeys(keys, name) == \E k \in 1..Len(keys) : keys[k] = name

Abs(x) == IF x < 0 THEN -x ELSE x

BoardColumns(player) ==
    [player_id |-> player.player_id,
     team |-> Get(player, "team", ""),
     position |-> player.position,
     unified_rank |-> player.unified_rank,
     unified_big_board_score |-> player.unified_big_board_score,
     raw_fantasy_points |-> Get(player, "raw_fantasy_points", 0),
     vor_final |-> Get(player, "vor_final", 0)]

\* variant: the difference taken as adp - unified_rank
matched_row_adp_minus_rank(player, matched_adp, league_size) ==
    ("adp" :> matched_adp) @@
    ("rank_difference" :> matched_adp - 10 * player.unified_rank) @@
    ("league_size_adjusted_diff" :>
        Frac(matched_adp - 10 * player.unified_rank, 10 * league_size)) @@
    ("matched" :> TRUE) @@
    BoardColumns(player)

matched_row(player, matched_adp, league_size) ==
    ("adp" :> matched_adp) @@
    ("rank_difference" :> 10 * player.unified_rank - matched_adp) @@
    ("league_size_adjusted_diff" :>
        Frac(10 * player.unified_rank - matched_adp, 10 * league_size)) @@
    ("matched" :> TRUE) @@
    BoardColumns(player)

unmatched_row(player) ==
    ("adp" :> NaN) @@ ("rank_difference" :> NaN) @@
    ("league_size_adjusted_diff" :> NaN) @@ ("matched" :> FALSE) @@
    BoardColumns(player)

\* variant: an exact match is dropped beyond the warning limit
accept_exact_within_limit(rank_diff) == rank_diff <= ExactWarnLimit

\* variant: no stricter similarity across a large rank difference
accept_any_divergence(rank_diff, score) == TRUE

\* an exact match is kept whatever the rank difference (above 100 the code
\* only prints a warning)
accept_exact(rank_diff) == TRUE

\* an approximate match across a large rank difference needs the stricter
\* similarity
accept_divergent(rank_diff, score) ==
    ~(rank_diff > DivergenceLimit /\ score < StrictThreshold)

\* does the loop body call the scorer for this player
uses_scorer(normalized_name, keys) == ~InKeys(keys, normalized_name)

\* v, evaluated once, handed to F
Once(v, F(_)) == CHOOSE r \in { F(x) : x \in {v} } : TRUE

\* big_board_df['normalized_name'] = big_board_df['player_id'].apply(normalize_player_name)
with_normalized_name(big_board_df) ==
    [i \in DOMAIN big_board_df |->
        With(big_board_df[i], "normalized_name",
             normalize_player_name(Str(big_board_df[i].player_id)))]

\* one iteration of the loop of match_players_to_adp
match_player(player, clean_adp_df, keys, sim, league_size) ==
    IF ~uses_scorer(player.normalized_name, keys)
    THEN LET matched_adp == adp_dict_get(clean_adp_df, player.normalized_name)
         IN IF accept_exact(Abs(10 * player.unified_rank - matched_adp))
            THEN matched_row(player, matched_adp, league_size)
            ELSE unmatched_row(player)
    ELSE LET best_match == extractOne(sim, player.normalized_name, keys)
         IN IF best_match.found /\ meets_threshold(best_match.score, AdpThreshold)
            THEN LET matched_adp == adp_dict_get(clean_adp_df, best_match.match)
                     rank_diff == Abs(10 * player.unified_rank - matched_adp)
                 IN IF accept_divergent(rank_diff, best_match.score)
                    THEN matched_row(player, matched_adp, league_size)
                    ELSE unmatched_row(player)
            ELSE unmatched_row(player)

\* the queries handed to process.extractOne during the loop
scored_queries(big_board_df, adp_df) ==
    Once(<<with_normalized_name(big_board_df), adp_dict_keys(validate_adp_data(adp_df))>>,
         LAMBDA in :
            { in[1][i].normalized_name : i \in
                { j \in DOMAIN in[1] : uses_scorer(in[1][j].normalized_name, in[2]) } })

\* variant: the rows without an adp come first
sort_by_adp_na_first(all_players) ==
    LET matched   == { i \in 1..Len(all_players) : all_players[i].matched }
        unmatched == SelectSeq(all_players, LAMBDA r : ~r.matched)
        key == [i \in 1..Len(all_players) |->
                  IF all_players[i].matched THEN all_players[i].adp ELSE 0]
    IN { unmatched \o [k \in 1..Cardinality(matched) |-> all_players[p[k]]] :
           p \in SortAscOutcomes(matched, key) }

\* sort_values('adp', na_position='last') of matched_players + unmatched_big_board
sort_by_adp(all_players) ==
    LET matched   == { i \in 1..Len(all_players) : all_players[i].matched }
        unmatched == SelectSeq(all_players, LAMBDA r : ~r.matched)
        key == [i \in 1..Len(all_players) |->
                  IF all_players[i].matched THEN all_players[i].adp ELSE 0]
    IN { [k \in 1..Cardinality(matched) |-> all_players[p[k]]] \o unmatched :
           p \in SortAscOutcomes(matched, key) }

\* the rows of the loop: matched_players + unmatched_big_board
match_loop(big_board_df, adp_df, sim, league_size) ==
    Once(<<with_normalized_name(big_board_df), validate_adp_data(adp_df)>>,
         LAMBDA in :
            Once(<<[i \in DOMAIN in[1] |->
                      match_player(in[1][i], in[2], adp_dict_keys(in[2]), sim, league_size)]>>,
                 LAMBDA rows :
                    SelectSeq(rows[1], LAMBDA r : r.matched)
                      \o SelectSeq(rows[1], LAMBDA r : ~r.matched)))

\* the tables match_players_to_adp can return
match_players_to_adp(big_board_df, adp_df, sim, league_size) ==
    UNION { sort_by_adp(all_players) :
              all_players \in { match_loop(big_board_df, adp_df, sim, league_size) } }

\* None: unequal to every string (a string is a sequence of one-character strings)
None == <<"None">>

\* build_name_map(fantasypros_names, nflfastr_names, threshold): for every
\* name the nflfastR name it maps to, or None; requires a candidate
build_name_map(fantasypros_names, nflfastr_names, sim, threshold) ==
    LET nflfastr_names_norm ==
            [k \in 1..Len(nflfastr_names) |-> normalize_name(Str(nflfastr_names[k]))]
    IN [fp_name \in { fantasypros_names[k] : k \in 1..Len(fantasypros_names) } |->
          LET best == extractOne(sim, normalize_name(Str(fp_name)), nflfastr_names_norm)
          IN IF meets_threshold(best.score, threshold)
             THEN nflfastr_names[best.idx] ELSE None]

\* fuzzy_merge: the matched_norm_name column of the actuals
fuzzy_merge_matches(proj_player_ids, actual_player_names, sim) ==
    LET proj_names ==
            [k \in 1..Len(proj_player_ids) |-> normalize_name(Str(proj_player_ids[k]))]
    IN [k \in 1..Len(actual_player_names) |->
          LET best == extractOne(sim, normalize_name(Str(actual_player_names[k])), proj_names)
          IN IF meets_threshold(best.score, MergeThreshold) THEN best.match ELSE None]
-----------------------------------------------------------------------------
(* adp_comparison.py: the value tiers.  A league_size_adjusted_diff is NaN *)
(* or the double nearest to a quotient num/den; the thresholds are in      *)
(* tenths.                                                                 *)

TealLimit == -15
GreenLimit == -8
LightGreenLimit == -3
YellowLimit == 3
OrangeLimit == 8

Limits == {TealLimit, GreenLimit, LightGreenLimit, YellowLimit, OrangeLimit}

\* -1.5 is a double; the doubles written -0.8, -0.3, 0.3 and 0.8 are not
\* the decimal numbers
IsExactLimit(limit) == limit % 5 = 0

\* how `diff`, a double, can lie relative to the double of a threshold that
\* its quotient equals as a number: below it (-1), on it (0) or above it (1);
\* (2 - 2.8) / 1 is above -0.8, (1 - 10.6) / 12 is on it.  Any other
\* quotient lies where the numbers lie.
Sides(diff) ==
    IF isna(diff) THEN {0}
    ELSE IF \E limit \in Limits :
               ~IsExactLimit(limit) /\ 10 * diff.num = limit * diff.den
         THEN {-1, 0, 1}
         ELSE {0}

\* diff <= limit, on doubles
at_most(diff, limit, side) ==
    \/ 10 * diff.num < limit * diff.den
    \/ 10 * diff.num = limit * diff.den /\ side <= 0

\* variant: the green and light_green thresholds exchanged
get_value_color_unordered(league_size_adjusted_diff, side) ==
    IF isna(league_size_adjusted_diff) THEN "purple"
    ELSE LET diff == league_size_adjusted_diff
         IN IF at_most(diff, TealLimit, side) THEN "teal"
            ELSE IF at_most(diff, LightGreenLimit, side) /\ ~at_most(diff, GreenLimit, side)
                 THEN "green"
            ELSE IF at_most(diff, GreenLimit, side) THEN "light_green"
            ELSE IF at_most(diff, YellowLimit, side) THEN "yellow"
            ELSE IF at_most(diff, OrangeLimit, side) THEN "orange"
            ELSE "red"

get_value_color(league_size_adjusted_diff, side) ==
    IF isna(league_size_adjusted_diff) THEN "purple"
    ELSE LET diff == league_size_adjusted_diff
         IN IF at_most(diff, TealLimit, side) THEN "teal"
            ELSE IF at_most(diff, GreenLimit, side) THEN "green"
            ELSE IF at_most(diff, LightGreenLimit, side) THEN "light_green"
            ELSE IF at_most(diff, YellowLimit, side) THEN "yellow"
            ELSE IF at_most(diff, OrangeLimit, side) THEN "orange"
            ELSE "red"

get_value_recommendation(color) ==
    CASE color = "teal" -> "Strong Buy"
      [] color = "green" -> "Buy"
      [] color = "light_green" -> "Slight Buy"
      [] color = "yellow" -> "Slight Avoid"
      [] color = "orange" -> "Avoid"
      [] color = "red" -> "Strong Avoid"
      [] color = "purple" -> "Not in ADP"
      [] OTHER -> "Unknown"

\* comparison_df with value_color and value_recommendation, for one way
\* the quotients of its rows are rounded
with_value_columns(comparison_df, side) ==
    [i \in DOMAIN comparison_df |->
        LET color == get_value_color(comparison_df[i].league_size_adjusted_diff, side[i])
        IN ("value_color" :> color) @@
           ("value_recommendation" :> get_value_recommendation(color)) @@
           comparison_df[i]]

\* create_adp_comparison_sheet(big_board_df, league_size), adp_df being
\* what get_average_adp(league_size) returned: the tables it can return
create_adp_comparison_sheet(big_board_df, adp_df, sim, league_size) ==
    UNION { { with_value_columns(comparison_df, side) :
                side \in { s \in [DOMAIN comparison_df -> {-1, 0, 1}] :
                             \A i \in DOMAIN comparison_df :
                                s[i] \in Sides(comparison_df[i].league_size_adjusted_diff) } } :
            comparison_df \in match_players_to_adp(big_board_df, adp_df, sim, league_size) }
-----------------------------------------------------------------------------
(* Exercising the normalisers: a name cell is normalised, and the result   *)
(* is fed to the same normaliser again                                     *)

\* pieces the input names are assembled from
NameChunks == { <<"a">>, <<"i">>, <<"J","i","m">>, <<" ">>, <<"-">>, <<".">>,
                <<" ","J","r">>, <<" ","s","r">>, <<" ","I","I">> }

MaxChunks == 3

RECURSIVE ChunkNames(_)
ChunkNames(n) ==
    IF n = 0 THEN { <<>> }
    ELSE LET shorter == ChunkNames(n - 1)
         IN shorter \cup { s \o c : s \in shorter, c \in NameChunks }

NameCells == { Str(s) : s \in ChunkNames(MaxChunks) }
                 \cup { [kind |-> "None", s |-> <<>>], [kind |-> "NaN", s |-> <<>>] }

Normalizers == {"normalize_player_name", "normalize_name"}

ApplyNormalizer(fn, v) ==
    IF fn = "normalize_player_name" THEN normalize_player_name(v) ELSE normalize_name(v)

IdleNames ==
    /\ nm_fn = "idle"
    /\ nm_arg = Str(<<>>)
    /\ nm_val = <<>>
    /\ nm_calls = 0

InitNames ==
    /\ nm_fn \in Normalizers
    /\ nm_arg \in NameCells
    /\ nm_val = <<>>
    /\ nm_calls = 0

\* first call: the normaliser is applied to the raw cell
NormalizeRaw ==
    /\ nm_fn \in Normalizers
    /\ nm_calls = 0
    /\ nm_val' = ApplyNormalizer(nm_fn, nm_arg)
    /\ nm_calls' = 1
    /\ UNCHANGED <<nm_fn, nm_arg, board_vars, rs_vars, tv_vars, mn_vars>>

\* second call: the normaliser is applied to its own output
NormalizeAgain ==
    /\ nm_calls = 1
    /\ nm_arg' = Str(nm_val)
    /\ nm_val' = ApplyNormalizer(nm_fn, Str(nm_val))
    /\ nm_calls' = 2
    /\ UNCHANGED <<nm_fn, board_vars, rs_vars, tv_vars, mn_vars>>
-----------------------------------------------------------------------------
(* The valuation pipeline as a state machine.                              *)
(*   entry = "main": main()'s VOR / scarcity stage followed by             *)
(*       calculate_unified_big_board_score                                 *)
(*   entry = "vbd": the vbd_optimizer functions called in sequence         *)
(*   entry = "unified": calculate_unified_big_board_score called on a      *)
(*       table without VOR columns                                         *)

MaxPlayers == 3
MaxLeagueSize == 2
MaxCompanions == 1

PlayerRow(player_id, team, position, points) ==
    [player_id |-> player_id, team |-> team, position |-> position,
     raw_fantasy_points |-> points, injury_weight |-> 100,
     weighted_fantasy_points |-> points]

\* rows of the board runs: even whole point values
BoardRows ==
    { PlayerRow(<<"B","o">>, "DAL", position, points) :
        position \in Positions, points \in {110, 150, 200} }

\* rows of the heuristic runs: every combination of position, team class,
\* name pattern and scoring band
HeurNames == { <<"A","l">>, <<"B"," ","J","r",".">>, <<"V","i","c">> }
HeurTeams == {"KC", "WAS", "PHI", "DAL"}
HeurPoints == {150, 200, 300, 350, 400, 450}
HeurRows ==
    { PlayerRow(player_id, team, position, points) :
        player_id \in HeurNames, team \in HeurTeams,
        position \in Positions, points \in HeurPoints }

\* tables of at most n rows sorted by key: descending if desc, else ascending
SortedTables(rows, n, key(_), desc) ==
    UNION { { t \in [1..k -> rows] :
                \A i \in 1..(k - 1) :
                    IF desc THEN key(t[i]) >= key(t[i + 1])
                    ELSE key(t[i]) <= key(t[i + 1]) } : k \in 0..n }

\* each row labelled with its place at ingestion
Labelled(t) == [i \in DOMAIN t |-> With(t[i], "idx", i)]

\* the board tables: 1..MaxPlayers rows, listed by position and points (the
\* pipeline reads the order of the rows only through its sorts, and every
\* outcome of a sort is taken)
PositionOrder == <<"QB", "RB", "WR", "TE">>
RowKey(row) ==
    1000 * (CHOOSE k \in DOMAIN PositionOrder : PositionOrder[k] = row.position)
      + row.raw_fantasy_points
BoardTables ==
    { Labelled(t) : t \in SortedTables(BoardRows, MaxPlayers, RowKey, FALSE) \ {<<>>} }

\* the heuristic tables: a player of any kind, followed by at most
\* MaxCompanions further players
HeurCompanions == { PlayerRow(<<"A","l">>, "DAL", position, 200) : position \in {"RB", "WR"} }
HeurTables ==
    { Labelled(<<first>> \o rest) :
        first \in HeurRows,
        rest \in UNION { [1..k -> HeurCompanions] : k \in 0..MaxCompanions } }

\* the baseline scenario: a 12-team league and 30 running backs, in no
\* particular order, whose points in descending order are 156, 154, ..., 98
\* (the 24th is 110, the 4th is 150)
ScenarioTable ==
    [i \in 1..30 |->
        With(PlayerRow(<<"B","o">>, "DAL", "RB", 2 * (78 - ((7 * i) % 30))), "idx", i)]

NoBaselines == [position \in Positions |-> NaN]
NoOrder == [position \in Positions |-> <<>>]

IdleBoard ==
    /\ entry = "idle"
    /\ cur_league_size = DefaultLeagueSize
    /\ cur_df = <<>>
    /\ cur_baselines = NoBaselines
    /\ cur_order = NoOrder
    /\ pc = "idle"

InitBoard ==
    /\ entry \in {"main", "vbd"}
    /\ cur_league_size \in (IF entry = "main" THEN {DefaultLeagueSize} ELSE 1..MaxLeagueSize \cup {DefaultLeagueSize})
    /\ cur_df \in BoardTables
                 \cup (IF entry = "vbd" /\ cur_league_size = DefaultLeagueSize
                       THEN {ScenarioTable} ELSE {})
    /\ cur_baselines = NoBaselines
    /\ cur_order = NoOrder
    /\ pc = (IF entry = "main" THEN "vor_scarcity" ELSE "baselines")

InitHeur ==
    /\ entry = "unified"
    /\ cur_league_size = DefaultLeagueSize
    /\ cur_df \in HeurTables
    /\ cur_baselines = NoBaselines
    /\ cur_order = NoOrder
    /\ pc = "advanced_metrics"

CalculateReplacementBaselines ==
    /\ pc = "baselines"
    /\ cur_baselines' = calculate_replacement_baselines(cur_df, cur_league_size)
    /\ pc' = "vor"
    /\ UNCHANGED <<entry, cur_league_size, cur_df, cur_order, nm_vars, rs_vars, tv_vars, mn_vars>>

CalculateVor ==
    /\ pc = "vor"
    /\ cur_df' = calculate_vor(cur_df, cur_baselines)
    /\ pc' = "opportunity_cost"
    /\ UNCHANGED <<entry, cur_league_size, cur_baselines, cur_order, nm_vars, rs_vars, tv_vars, mn_vars>>

CalculateOpportunityCost ==
    /\ pc = "opportunity_cost"
    /\ \E out \in calculate_opportunity_cost(cur_df) :
          /\ cur_df' = out.df
          /\ cur_order' = out.order
    /\ pc' = "optimal_value"
    /\ UNCHANGED <<entry, cur_league_size, cur_baselines, nm_vars, rs_vars, tv_vars, mn_vars>>

CalculateOptimalValue ==
    /\ pc = "optimal_value"
    /\ cur_df' = calculate_optimal_value(cur_df)
    /\ pc' = "done"
    /\ UNCHANGED <<entry, cur_league_size, cur_baselines, cur_order, nm_vars, rs_vars, tv_vars, mn_vars>>

\* main(): baselines with the default league size, VOR, scarcity, vor_final
VorScarcityStage ==
    /\ pc = "vor_scarcity"
    /\ cur_baselines' = calculate_replacement_baselines(cur_df, DefaultLeagueSize)
    /\ cur_df' = vor_scarcity_stage(cur_df)
    /\ pc' = "advanced_metrics"
    /\ UNCHANGED <<entry, cur_league_size, cur_order, nm_vars, rs_vars, tv_vars, mn_vars>>

\* calculate_unified_big_board_score, one step per stage it runs
AdvancedMetricsStage ==
    /\ pc = "advanced_metrics"
    /\ cur_df' = calculate_advanced_statistical_metrics(cur_df)
    /\ pc' = "risk"
    /\ UNCHANGED <<entry, cur_league_size, cur_baselines, cur_order, nm_vars, rs_vars, tv_vars, mn_vars>>

\* `keyword in row['player_id']` raises TypeError for a player_id that is not
\* a string, and the function has no handler
RiskStage ==
    /\ pc = "risk"
    /\ IF \E i \in 1..Len(cur_df) : isna(cur_df[i].player_id)
       THEN pc' = "raised" /\ cur_df' = cur_df
       ELSE /\ cur_df' = calculate_risk_adjusted_value(cur_df)
            /\ pc' = "bayesian"
    /\ UNCHANGED <<entry, cur_league_size, cur_baselines, cur_order, nm_vars, rs_vars, tv_vars, mn_vars>>

BayesianStage ==
    /\ pc = "bayesian"
    /\ cur_df' = calculate_bayesian_adjustments(cur_df)
    /\ pc' = "consistency"
    /\ UNCHANGED <<entry, cur_league_size, cur_baselines, cur_order, nm_vars, rs_vars, tv_vars, mn_vars>>

ConsistencyStage ==
    /\ pc = "consistency"
    /\ cur_df' = calculate_consistency_metrics(cur_df)
    /\ pc' = "score"
    /\ UNCHANGED <<entry, cur_league_size, cur_baselines, cur_order, nm_vars, rs_vars, tv_vars, mn_vars>>

\* the scoring loop, the rank column and the final sort
ScoreRankSortStage ==
    /\ pc = "score"
    /\ cur_df' \in sort_by_unified_rank(score_and_rank(cur_df))
    /\ pc' = "done"
    /\ UNCHANGED <<entry, cur_league_size, cur_baselines, cur_order, nm_vars, rs_vars, tv_vars, mn_vars>>

UnifiedStages ==
    \/ AdvancedMetricsStage
    \/ RiskStage
    \/ BayesianStage
    \/ ConsistencyStage
    \/ ScoreRankSortStage
-----------------------------------------------------------------------------
(* Tables for the composite scorer: a player whose optional columns are    *)
(* present or absent, alone or followed by a counterpart of the same       *)
(* position that differs from it in identity, raw points or vor_final.     *)

\* the simulated-outcome columns of a record that has them (whole points;
\* mc_probability_above_avg in hundredths)
McFields ==
    [mc_mean |-> 160, mc_median |-> 158, mc_25th_percentile |-> 140,
     mc_75th_percentile |-> 180, mc_volatility |-> 1,
     mc_probability_above_avg |-> 60, mc_upside_potential |-> 20,
     mc_downside_risk |-> 10]

\* row with the columns of `columns` it is to carry
WithColumns(row, columns, present) ==
    [col \in DOMAIN row \cup (DOMAIN columns \cap present) |->
        IF col \in DOMAIN columns \cap present THEN columns[col] ELSE row[col]]

\* vor_final in hundredths: below, far below and above replacement
VorFinals == {-2000, -1000, 1000}

\* the optional inputs of the scorer: any subset of them is present
OptionalInputs(efficiency_adjusted_points, injury_weight, vor_final) ==
    [efficiency_adjusted_points |-> efficiency_adjusted_points,
     injury_weight |-> injury_weight,
     vor_final |-> vor_final] @@ McFields

OptionalPresence ==
    { present \in SUBSET {"efficiency_adjusted_points", "injury_weight", "vor_final", "mc"} : TRUE }

Columns(present) ==
    (present \ {"mc"}) \cup (IF "mc" \in present THEN DOMAIN McFields ELSE {})

ScorerFirstRows ==
    { WithColumns([player_id |-> <<"A","l">>, team |-> "KC", position |-> position,
                   raw_fantasy_points |-> points, weighted_fantasy_points |-> points],
                  OptionalInputs(180, 90, vor_final), Columns(present)) :
        position \in {"QB", "TE"}, points \in {150, 200},
        vor_final \in VorFinals, present \in OptionalPresence }

\* a counterpart of row: same position and optional columns, with its own
\* name, team, raw points and vor_final
Counterparts(row) ==
    { WithColumns(row,
                  [player_id |-> player_id, team |-> team, raw_fantasy_points |-> points,
                   weighted_fantasy_points |-> points, vor_final |-> vor_final],
                  {"player_id", "team", "raw_fantasy_points", "weighted_fantasy_points"}
                     \cup ({"vor_final"} \cap DOMAIN row)) :
        player_id \in { <<"A","l">>, <<"B"," ","J","r",".">> }, team \in {"KC", "WAS"},
        points \in {150, 200}, vor_final \in VorFinals }

\* row with a player_id that is not a string (a missing value)
Malformed(row) == With(row, "player_id", NaN)

InitScorer ==
    /\ entry = "unified"
    /\ cur_league_size = DefaultLeagueSize
    /\ \E first \in ScorerFirstRows :
          \/ cur_df = Labelled(<<first>>)
          \/ \E second \in Counterparts(first) :
                \/ cur_df = Labelled(<<first, second>>)
                \/ cur_df = Labelled(<<first, Malformed(second)>>)
    /\ cur_baselines = NoBaselines
    /\ cur_order = NoOrder
    /\ pc = "advanced_metrics"
-----------------------------------------------------------------------------
(* The entity resolvers as a state machine: one call of                    *)
(* match_players_to_adp, build_name_map or fuzzy_merge.                    *)

MaxBoard == 2
MaxAdp == 2

QueryNames == { <<"A","l"," ","J","r",".">>, <<"B","o">> }
ChoiceNames == { <<"A","l">>, <<"C","y">> }
BoardScores == {200, 300}
\* 51.0, 120.0 and the out-of-range 250.0
AdpValues == {510, 1200, 2500}

\* the unified big board: sorted by score, ranked by it
BigBoards ==
    LET rows == { [player_id |-> player_id, team |-> "DAL", position |-> "RB",
                   unified_big_board_score |-> score,
                   raw_fantasy_points |-> 200, vor_final |-> 0] :
                    player_id \in QueryNames, score \in BoardScores }
        key(row) == row.unified_big_board_score
    IN { [i \in DOMAIN t |->
            With(t[i], "unified_rank",
                 rank_min_desc([j \in DOMAIN t |-> t[j].unified_big_board_score], i))] :
          t \in SortedTables(rows, MaxBoard, key, TRUE) }

\* the ADP table as get_average_adp leaves it: normalized_name added, sorted by adp
AdpTables ==
    LET rows == { [player_name |-> player_name, adp |-> adp,
                   normalized_name |-> normalize_player_name(Str(player_name))] :
                    player_name \in ChoiceNames, adp \in AdpValues }
        key(row) == row.adp
    IN SortedTables(rows, MaxAdp, key, FALSE)

NameLists(names, n) == UNION { [1..k -> names] : k \in 0..n }
UniqueNameLists(names, n) ==
    { t \in NameLists(names, n) : \A i, j \in DOMAIN t : t[i] = t[j] => i = j }

SetOf(seq) == { seq[k] : k \in DOMAIN seq }

\* the scorer's values on the unequal pairs a call can ask about; the pairs
\* it cannot ask about carry the lowest score
Similarities(queries, choices, scores) ==
    LET all == { pair \in { normalize_name(Str(q)) : q \in QueryNames }
                          \X { normalize_name(Str(c)) : c \in ChoiceNames } :
                    pair[1] # pair[2] }
        lowest == CHOOSE s \in scores : \A other \in scores : s <= other
    IN { sim \in [all -> scores] :
           \A pair \in all :
              (pair[1] \notin queries \/ pair[2] \notin choices) => sim[pair] = lowest }

AdpScores == {94, 95, 98}
NameMapScores == {89, 90}
MergeScores == {60, 84, 85}

IdleResolver ==
    /\ rs_fn = "idle"
    /\ rs_board = <<>>
    /\ rs_adp = <<>>
    /\ rs_queries = <<>>
    /\ rs_choices = <<>>
    /\ rs_sim = <<>>
    /\ rs_scored = {}
    /\ rs_result = <<>>
    /\ rs_pc = "idle"

InitMatch ==
    /\ rs_fn = "match_players_to_adp"
    /\ rs_board \in BigBoards
    /\ rs_adp \in AdpTables
    /\ rs_queries = <<>>
    /\ rs_choices = <<>>

InitNameMap ==
    /\ rs_fn = "build_name_map"
    /\ rs_board = <<>>
    /\ rs_adp = <<>>
    /\ rs_queries \in UniqueNameLists(QueryNames, MaxBoard)
    /\ rs_choices \in UniqueNameLists(ChoiceNames, MaxAdp)

InitMerge ==
    /\ rs_fn = "fuzzy_merge"
    /\ rs_board = <<>>
    /\ rs_adp = <<>>
    /\ rs_queries \in NameLists(QueryNames, MaxBoard)
    /\ rs_choices \in NameLists(ChoiceNames, MaxAdp)

InitResolve ==
    /\ InitMatch \/ InitNameMap \/ InitMerge
    /\ rs_sim = <<>>
    /\ rs_scored = {}
    /\ rs_result = <<>>
    /\ rs_pc = "call"

\* the normalised names of a list of raw names
Normalized(names) == { normalize_name(Str(names[k])) : k \in DOMAIN names }

\* match_players_to_adp(big_board_df, adp_df, league_size); an empty board
\* gives a frame without an adp column, and the final sort raises
MatchPlayersToAdp ==
    /\ rs_fn = "match_players_to_adp" /\ rs_pc = "call"
    /\ \E queries \in { scored_queries(rs_board, rs_adp) },
          choices \in { SetOf(adp_dict_keys(validate_adp_data(rs_adp))) } :
         \E sim \in Similarities(queries, choices, AdpScores) :
            /\ rs_sim' = sim
            /\ IF rs_board = <<>>
               THEN /\ rs_pc' = "raised"
                    /\ UNCHANGED <<rs_scored, rs_result>>
               ELSE /\ rs_result' \in match_players_to_adp(rs_board, rs_adp, sim, DefaultLeagueSize)
                    /\ rs_scored' = queries
                    /\ rs_pc' = "done"
    /\ UNCHANGED <<rs_fn, rs_board, rs_adp, rs_queries, rs_choices, nm_vars, board_vars, tv_vars, mn_vars>>

\* build_name_map(fantasypros_names, nflfastr_names, threshold=90); without
\* a candidate extractOne returns None and unpacking it raises
BuildNameMap ==
    /\ rs_fn = "build_name_map" /\ rs_pc = "call"
    /\ \E queries \in { Normalized(rs_queries) }, choices \in { Normalized(rs_choices) } :
         \E sim \in Similarities(queries, choices, NameMapScores) :
            /\ rs_sim' = sim
            /\ IF rs_queries # <<>> /\ rs_choices = <<>>
               THEN /\ rs_pc' = "raised"
                    /\ rs_scored' = { normalize_name(Str(rs_queries[1])) }
                    /\ UNCHANGED rs_result
               ELSE /\ rs_result' = build_name_map(rs_queries, rs_choices, sim, NameMapThreshold)
                    /\ rs_scored' = queries
                    /\ rs_pc' = "done"
    /\ UNCHANGED <<rs_fn, rs_board, rs_adp, rs_queries, rs_choices, nm_vars, board_vars, tv_vars, mn_vars>>

\* fuzzy_merge(proj_file, actual_file, out_file): the matched_norm_name
\* column and the inner merge on it, as pairs (projection row, actual row)
FuzzyMerge ==
    /\ rs_fn = "fuzzy_merge" /\ rs_pc = "call"
    /\ \E queries \in { Normalized(rs_queries) }, choices \in { Normalized(rs_choices) } :
         \E sim \in Similarities(queries, choices, MergeScores) :
            /\ rs_sim' = sim
            /\ IF rs_queries # <<>> /\ rs_choices = <<>>
               THEN /\ rs_pc' = "raised"
                    /\ rs_scored' = { normalize_name(Str(rs_queries[1])) }
                    /\ UNCHANGED rs_result
               ELSE \E matches \in { fuzzy_merge_matches(rs_choices, rs_queries, sim) } :
                       /\ rs_result' =
                            [matched_norm_name |-> matches,
                             merged |-> { ik \in (DOMAIN rs_choices) \X (DOMAIN rs_queries) :
                                            matches[ik[2]] = normalize_name(Str(rs_choices[ik[1]])) }]
                       /\ rs_scored' = queries
                       /\ rs_pc' = "done"
    /\ UNCHANGED <<rs_fn, rs_board, rs_adp, rs_queries, rs_choices, nm_vars, board_vars, tv_vars, mn_vars>>
-----------------------------------------------------------------------------
(* The value tiers as a state machine: a column of adjusted differences    *)
(* goes through get_value_color and get_value_recommendation, as in        *)
(* create_adp_comparison_sheet.                                            *)

MaxColumn == 2
MaxDiff == 16

\* the differences -MaxDiff/10 .. MaxDiff/10 in steps of 0.1, each rounded
\* every way it can be
DiffCells ==
    { cell \in { [diff |-> Frac(num, 10), side |-> side] :
                   num \in -MaxDiff..MaxDiff, side \in {-1, 0, 1} } :
        cell.side \in Sides(cell.diff) }

\* the cells of a column, those in `missing` being NaN
WithMissingDiff(column, missing) ==
    [i \in DOMAIN column |->
        IF i \in missing THEN [diff |-> NaN, side |-> 0] ELSE column[i]]

IdleTiers ==
    /\ tv_column = <<>>
    /\ tv_color = <<>>
    /\ tv_recommendation = <<>>
    /\ tv_pc = "idle"

InitTiers ==
    /\ \E n \in 0..MaxColumn :
          \E column \in [1..n -> DiffCells], missing \in SUBSET (1..n) :
             /\ \A i \in missing : column[i] = [diff |-> Frac(-MaxDiff, 10), side |-> 0]
             /\ tv_column = WithMissingDiff(column, missing)
    /\ tv_color = <<>>
    /\ tv_recommendation = <<>>
    /\ tv_pc = "call"

\* comparison_df['league_size_adjusted_diff'].apply(get_value_color)
ApplyGetValueColor ==
    /\ tv_pc = "call"
    /\ tv_color' = [i \in DOMAIN tv_column |->
                      get_value_color(tv_column[i].diff, tv_column[i].side)]
    /\ tv_pc' = "colored"
    /\ UNCHANGED <<tv_column, tv_recommendation, nm_vars, board_vars, rs_vars, mn_vars>>

\* comparison_df['value_color'].apply(get_value_recommendation)
ApplyGetValueRecommendation ==
    /\ tv_pc = "colored"
    /\ tv_recommendation' = [i \in DOMAIN tv_color |-> get_value_recommendation(tv_color[i])]
    /\ tv_pc' = "done"
    /\ UNCHANGED <<tv_column, tv_color, nm_vars, board_vars, rs_vars, mn_vars>>
-----------------------------------------------------------------------------
(* The market comparison as a state machine: one call of                   *)
(* validate_adp_data or create_adp_comparison_sheet on ADP tables with    *)
(* missing, out-of-range, boundary and equal values.                       *)

\* 0.9, 1.0, 200.0, 200.1
MarketAdpValues == {9, 10, 2000, 2001}

MarketAdpRows ==
    { [player_name |-> player_name, adp |-> adp,
       normalized_name |-> normalize_player_name(Str(player_name))] :
        player_name \in ChoiceNames, adp \in MarketAdpValues }

\* the records of a frame, the adp of those in `missing` being NaN
WithMissingAdp(frame, missing) ==
    [i \in DOMAIN frame |->
        IF i \in missing THEN With(frame[i], "adp", NaN) ELSE frame[i]]

\* the frame without the adp values that `missing` hides
Plain(frame, missing) ==
    \A i \in missing : \A adp \in MarketAdpValues : frame[i].adp <= adp

AdpSortKey(row) == row.adp

\* the big boards that list no player twice
MarketBoards ==
    { board \in BigBoards :
        \A i, j \in DOMAIN board : board[i].player_id = board[j].player_id => i = j }

\* fuzz.ratio just below and at the threshold
MarketScores == {94, 95}

InitMarket ==
    /\ \/ \* any frame of up to MaxAdp records
          /\ rs_fn = "validate_adp_data"
          /\ rs_board = <<>>
          /\ \E k \in 0..MaxAdp :
                \E frame \in [1..k -> MarketAdpRows], missing \in SUBSET (1..k) :
                   /\ Plain(frame, missing)
                   /\ rs_adp = WithMissingAdp(frame, missing)
       \/ \* sort_values('adp') of get_average_adp: ascending, missing values last
          /\ rs_fn = "create_adp_comparison_sheet"
          /\ rs_board \in MarketBoards
          /\ \E frame \in SortedTables(MarketAdpRows, MaxAdp, AdpSortKey, FALSE) :
                \E n \in 0..(MaxAdp - Len(frame)) :
                   \E last \in [1..n -> MarketAdpRows] :
                      /\ Plain(last, 1..n)
                      /\ rs_adp = frame \o WithMissingAdp(last, 1..n)
    /\ rs_queries = <<>>
    /\ rs_choices = <<>>
    /\ rs_sim = <<>>
    /\ rs_scored = {}
    /\ rs_result = <<>>
    /\ rs_pc = "call"

\* validate_adp_data(adp_df)
ValidateAdpData ==
    /\ rs_fn = "validate_adp_data" /\ rs_pc = "call"
    /\ rs_result' = validate_adp_data(rs_adp)
    /\ rs_pc' = "done"
    /\ UNCHANGED <<rs_fn, rs_board, rs_adp, rs_queries, rs_choices, rs_sim, rs_scored,
                   nm_vars, board_vars, tv_vars, mn_vars>>

\* create_adp_comparison_sheet(big_board_df, league_size), rs_adp being what
\* get_average_adp returned; the empty board raises in match_players_to_adp
CreateAdpComparisonSheet ==
    /\ rs_fn = "create_adp_comparison_sheet" /\ rs_pc = "call"
    /\ \E queries \in { scored_queries(rs_board, rs_adp) },
          choices \in { SetOf(adp_dict_keys(validate_adp_data(rs_adp))) } :
         \E sim \in Similarities(queries, choices, MarketScores) :
            /\ rs_sim' = sim
            /\ IF rs_board = <<>>
               THEN /\ rs_pc' = "raised"
                    /\ UNCHANGED <<rs_scored, rs_result>>
               ELSE /\ rs_result' \in
                         create_adp_comparison_sheet(rs_board, rs_adp, sim, DefaultLeagueSize)
                    /\ rs_scored' = queries
                    /\ rs_pc' = "done"
    /\ UNCHANGED <<rs_fn, rs_board, rs_adp, rs_queries, rs_choices, nm_vars, board_vars, tv_vars, mn_vars>>
-----------------------------------------------------------------------------
(* main() as a state machine.  The collaborators (downloads, nflfastR,     *)
(* the analysis stages, the export) are outside main(); what each of them  *)
(* does in a run is an input, mn_env.                                      *)

\* what a data source gives, and what a stage does
SourceOutcomes == {"rows", "empty", "raises"}
StageOutcomes == {"ok", "raises"}

Environments ==
    [projections : SourceOutcomes,   \* download_fantasypros_projections, map_fantasypros_to_pipeline
     nflfastr : SourceOutcomes,      \* load_nflfastr_multi_years
     team_pace : StageOutcomes,      \* calculate_team_pace
     expected_games : StageOutcomes, \* league averages, calculate_expected_games, the points loop
     efficiency : StageOutcomes,
     trends : StageOutcomes,
     monte_carlo : StageOutcomes,
     vor : StageOutcomes,
     unified : StageOutcomes,        \* calculate_unified_big_board_score, insights
     adp_sheet : StageOutcomes,      \* create_new_adp_comparison_sheet (ADP download)
     fallback : StageOutcomes]       \* rank_players

\* main() has no return value and lets no exception out; run as a script,
\* the interpreter ends with status 0
ReturnedNone == [returned |-> "None", raised |-> FALSE, exit_status |-> 0]

\* the analysis stages of main(), in the order they run
AnalysisStages == {"efficiency", "trends", "monte_carlo", "vor"}

\* the table a stage hands on: its own when it completes, the table it was
\* given when it raises (results_df_with_x = the table of the stage before)
after_stage(table, stage, outcome) ==
    IF outcome = "raises" THEN table ELSE table \cup {stage}

\* create_fantasypros_adp_comparison_sheet: after reading the rankings CSV
\* it imports get_value_recommendation from adp_comparison, where that name
\* is local to create_adp_comparison_sheet: ImportError (FileNotFoundError
\* before that when the CSV is absent)
create_fantasypros_adp_comparison_sheet == "raises"

\* export_to_excel: the ADP comparison sheet, then the FantasyPros sheet,
\* then the board; nothing in it handles an exception
export_to_excel(adp_sheet) ==
    IF adp_sheet = "raises" THEN "raises"
    ELSE IF create_fantasypros_adp_comparison_sheet = "raises" THEN "raises"
    ELSE "ok"

IdleMain ==
    /\ mn_env = <<>>
    /\ mn_pc = "idle"
    /\ mn_table = {}
    /\ mn_board = "none"
    /\ mn_log = {}
    /\ mn_caller = <<>>

InitMain ==
    /\ mn_env \in Environments
    /\ mn_pc = "download"
    /\ mn_table = {}
    /\ mn_board = "none"
    /\ mn_log = {}
    /\ mn_caller = <<>>

\* `return`, or the end of main()
Return(messages, board) ==
    /\ mn_pc' = "returned"
    /\ mn_log' = mn_log \cup messages
    /\ mn_board' = board
    /\ mn_caller' = ReturnedNone

\* except Exception of the outer try: print and fall off the end
Fatal == Return({"FATAL ERROR"}, "none")

\* on to the next statement
Continue(messages, next) ==
    /\ mn_pc' = next
    /\ mn_log' = mn_log \cup messages
    /\ UNCHANGED <<mn_board, mn_caller>>

MainDownload ==
    /\ mn_pc = "download"
    /\ CASE mn_env.projections = "raises" -> Fatal
         [] mn_env.projections = "empty" -> Return({"ERROR No player projections found"}, "none")
         [] OTHER -> Continue({}, "nflfastr")
    /\ UNCHANGED <<mn_env, mn_table, nm_vars, board_vars, rs_vars, tv_vars>>

MainLoadNflfastr ==
    /\ mn_pc = "nflfastr"
    /\ CASE mn_env.nflfastr = "raises" -> Fatal
         [] mn_env.nflfastr = "empty" -> Return({"ERROR No nflfastR data loaded"}, "none")
         [] OTHER -> Continue({}, "team_pace")
    /\ UNCHANGED <<mn_env, mn_table, nm_vars, board_vars, rs_vars, tv_vars>>

MainTeamPace ==
    /\ mn_pc = "team_pace"
    /\ IF mn_env.team_pace = "raises"
       THEN Return({"ERROR Failed to calculate team pace"}, "none")
       ELSE Continue({}, "expected_games")
    /\ UNCHANGED <<mn_env, mn_table, nm_vars, board_vars, rs_vars, tv_vars>>

MainExpectedGames ==
    /\ mn_pc = "expected_games"
    /\ IF mn_env.expected_games = "raises" THEN Fatal ELSE Continue({}, "efficiency")
    /\ UNCHANGED <<mn_env, mn_table, nm_vars, board_vars, rs_vars, tv_vars>>

\* the four analysis stages: a failure is printed and the run goes on with
\* the table of the stage before
MainEfficiency ==
    /\ mn_pc = "efficiency"
    /\ Continue(IF mn_env.efficiency = "raises"
                THEN {"ERROR Failed to calculate efficiency metrics"} ELSE {}, "trends")
    /\ mn_table' = after_stage(mn_table, "efficiency", mn_env.efficiency)
    /\ UNCHANGED <<mn_env, nm_vars, board_vars, rs_vars, tv_vars>>

MainTrends ==
    /\ mn_pc = "trends"
    /\ Continue(IF mn_env.trends = "raises"
                THEN {"ERROR Failed to analyze trends"} ELSE {}, "monte_carlo")
    /\ mn_table' = after_stage(mn_table, "trends", mn_env.trends)
    /\ UNCHANGED <<mn_env, nm_vars, board_vars, rs_vars, tv_vars>>

MainMonteCarlo ==
    /\ mn_pc = "monte_carlo"
    /\ Continue(IF mn_env.monte_carlo = "raises"
                THEN {"ERROR Failed to generate Monte Carlo distributions"} ELSE {}, "vor")
    /\ mn_table' = after_stage(mn_table, "monte_carlo", mn_env.monte_carlo)
    /\ UNCHANGED <<mn_env, nm_vars, board_vars, rs_vars, tv_vars>>

MainVor ==
    /\ mn_pc = "vor"
    /\ Continue(IF mn_env.vor = "raises"
                THEN {"ERROR Failed to calculate VOR/scarcity"} ELSE {}, "unified")
    /\ mn_table' = after_stage(mn_table, "vor", mn_env.vor)
    /\ UNCHANGED <<mn_env, nm_vars, board_vars, rs_vars, tv_vars>>

\* calculate_unified_big_board_score(results_df_with_vor), the insights and
\* export_to_excel in one try block
MainUnified ==
    /\ mn_pc = "unified"
    /\ IF mn_env.unified = "raises" \/ export_to_excel(mn_env.adp_sheet) = "raises"
       THEN Continue({"ERROR Failed to create unified big board"}, "fallback")
       ELSE Return({"SUCCESS"}, "unified")
    /\ UNCHANGED <<mn_env, mn_table, nm_vars, board_vars, rs_vars, tv_vars>>

\* the except branch of the unified stage: rank_players(results_df),
\* export_to_excel, return; what raises here reaches the outer handler
MainFallback ==
    /\ mn_pc = "fallback"
    /\ IF mn_env.fallback = "raises" \/ export_to_excel(mn_env.adp_sheet) = "raises"
       THEN Fatal
       ELSE Return({}, "fallback")
    /\ mn_table' = {}
    /\ UNCHANGED <<mn_env, nm_vars, board_vars, rs_vars, tv_vars>>
-----------------------------------------------------------------------------
(* Specifications                                                          *)

\* the valuation pipeline: main()'s run and the vbd_optimizer functions
Init == InitBoard /\ IdleNames /\ IdleResolver /\ IdleTiers /\ IdleMain

Next ==
    \/ CalculateReplacementBaselines
    \/ CalculateVor
    \/ CalculateOpportunityCost
    \/ CalculateOptimalValue
    \/ VorScarcityStage
    \/ UnifiedStages

Spec == Init /\ [][Next]_vars

\* calculate_unified_big_board_score over every kind of player
InitHeuristics == InitHeur /\ IdleNames /\ IdleResolver /\ IdleTiers /\ IdleMain

NextHeuristics == UnifiedStages

SpecHeur == InitHeuristics /\ [][NextHeuristics]_vars

\* the name normalisers
InitNormalize == InitNames /\ IdleBoard /\ IdleResolver /\ IdleTiers /\ IdleMain

NextNames == NormalizeRaw \/ NormalizeAgain

SpecNames == InitNormalize /\ [][NextNames]_vars


\* the entity resolvers
InitResolver == InitResolve /\ IdleNames /\ IdleBoard /\ IdleTiers /\ IdleMain

NextResolve == MatchPlayersToAdp \/ BuildNameMap \/ FuzzyMerge

SpecResolve == InitResolver /\ [][NextResolve]_vars

\* the value tiers
InitClassify == InitTiers /\ IdleNames /\ IdleBoard /\ IdleResolver /\ IdleMain

NextTiers == ApplyGetValueColor \/ ApplyGetValueRecommendation

SpecTiers == InitClassify /\ [][NextTiers]_vars

\* the market comparison
InitComparison == InitMarket /\ IdleNames /\ IdleBoard /\ IdleTiers /\ IdleMain

NextMarket == ValidateAdpData \/ CreateAdpComparisonSheet

SpecMarket == InitComparison /\ [][NextMarket]_vars

\* main(): which stages run, what is exported and what the caller gets
InitRun == InitMain /\ IdleNames /\ IdleBoard /\ IdleResolver /\ IdleTiers

NextMain ==
    \/ MainDownload
    \/ MainLoadNflfastr
    \/ MainTeamPace
    \/ MainExpectedGames
    \/ MainEfficiency
    \/ MainTrends
    \/ MainMonteCarlo
    \/ MainVor
    \/ MainUnified
    \/ MainFallback

SpecMain == InitRun /\ [][NextMain]_vars

\* the composite scorer over records with and without optional columns
InitScoring == InitScorer /\ IdleNames /\ IdleResolver /\ IdleTiers /\ IdleMain

SpecScore == InitScoring /\ [][NextHeuristics]_vars

\* main() is sequential code: the statement it is at runs
SpecMainFair == InitRun /\ [][NextMain]_vars /\ WF_vars(NextMain)
-----------------------------------------------------------------------------
(* Properties                                                              *)

\* C1: name normalisation is idempotent: normalising the output of either
\* normaliser again returns it unchanged
C1_Idempotent == nm_calls = 2 => nm_val = nm_arg.s

Annotated(col) == \A i \in 1..Len(cur_df) : col \in DOMAIN cur_df[i]

Ranked == pc = "done" /\ entry \in {"main", "unified"}

NumHigher(i) ==
    Cardinality({ j \in 1..Len(cur_df) :
        cur_df[j].unified_big_board_score > cur_df[i].unified_big_board_score })

\* C3: after calculate_unified_big_board_score every player has exactly one
\* unified_rank, a positive whole number equal to 1 + the number of players
\* of the whole pool with a strictly greater score; equal scores, equal ranks
C3_RankIsOnePlusHigher ==
    Ranked =>
        /\ Annotated("unified_rank")
        /\ \A i \in 1..Len(cur_df) :
              /\ cur_df[i].unified_rank \in 1..Len(cur_df)
              /\ cur_df[i].unified_rank = 1 + NumHigher(i)
        /\ \A i, j \in 1..Len(cur_df) :
              cur_df[i].unified_big_board_score = cur_df[j].unified_big_board_score
                  => cur_df[i].unified_rank = cur_df[j].unified_rank

\* two players of different cross-position score below a tie group
C3_Witness ==
    /\ Ranked
    /\ \E i, j, k \in 1..Len(cur_df) :
          /\ i # j
          /\ cur_df[i].unified_big_board_score = cur_df[j].unified_big_board_score
          /\ cur_df[k].unified_big_board_score > cur_df[i].unified_big_board_score
          /\ cur_df[k].position # cur_df[i].position
          /\ cur_df[i].unified_rank = 2

RankValues == { cur_df[i].unified_rank : i \in 1..Len(cur_df) }
ScoreValues == { cur_df[i].unified_big_board_score : i \in 1..Len(cur_df) }
TieGroup(r) == { i \in 1..Len(cur_df) : cur_df[i].unified_rank = r }

BaselinesComputed == entry \in {"main", "vbd"} /\ pc \notin {"baselines", "vor_scarcity"}

PointsOf(position) == { cur_df[i].raw_fantasy_points : i \in RowsOf(cur_df, position) }

\* the k-th largest raw_fantasy_points of a position, by counting
KthLargest(position, k) ==
    CHOOSE v \in PointsOf(position) :
        /\ Cardinality({ i \in RowsOf(cur_df, position) : cur_df[i].raw_fantasy_points > v }) < k
        /\ Cardinality({ i \in RowsOf(cur_df, position) : cur_df[i].raw_fantasy_points >= v }) >= k

CutoffRank(position, n_teams) ==
    IF position \in {"QB", "TE"} THEN n_teams ELSE 2 * n_teams

BaselineLeagueSize == IF entry = "main" THEN DefaultLeagueSize ELSE cur_league_size

\* C5: the baseline of a position is the raw_fantasy_points at 0-based index
\* league_size - 1 (QB, TE) or 2 * league_size - 1 (RB, WR) of the descending
\* list, and the position's median when it has no player at that index; with
\* 12 teams and 30 RBs whose 24th value is 110 the RB baseline is 110
C5_ReplacementBaselines ==
    BaselinesComputed =>
        /\ \A position \in Positions :
              LET n == Cardinality(RowsOf(cur_df, position))
                  c == CutoffRank(position, BaselineLeagueSize)
              IN IF n >= c THEN cur_baselines[position] = KthLargest(position, c)
                 ELSE IF n = 0 THEN cur_baselines[position] = NaN
                 ELSE IF n % 2 = 1
                      THEN cur_baselines[position] = KthLargest(position, (n + 1) \div 2)
                      ELSE 2 * cur_baselines[position] =
                             KthLargest(position, n \div 2) + KthLargest(position, n \div 2 + 1)
        /\ (Len(cur_df) = Len(ScenarioTable) /\ cur_league_size = 12) => cur_baselines["RB"] = 110

\* league of one team: two RBs, read at index 1; one WR, fewer than the
\* cutoff, so its median; no QB
C5_Witness ==
    /\ BaselinesComputed
    /\ entry = "vbd"
    /\ cur_league_size = 1
    /\ PointsOf("RB") = {110, 200}
    /\ Cardinality(RowsOf(cur_df, "RB")) = 2
    /\ cur_baselines["RB"] = 110
    /\ PointsOf("WR") = {150}
    /\ cur_baselines["WR"] = 150
    /\ cur_baselines["QB"] = NaN

\* C6: after calculate_vor every QB, RB, WR and TE has
\* vor = raw_fantasy_points - baseline[position]: zero at the baseline,
\* positive above it, negative below it; 150 points against 110 give 40
C6_VorIsPointsMinusBaseline ==
    \A i \in 1..Len(cur_df) :
        ("vor" \in DOMAIN cur_df[i] /\ cur_df[i].position \in Positions) =>
            LET row == cur_df[i]
                baseline == cur_baselines[row.position]
            IN /\ row.vor = row.raw_fantasy_points - baseline
               /\ (row.raw_fantasy_points = baseline <=> row.vor = 0)
               /\ (row.raw_fantasy_points > baseline <=> row.vor > 0)
               /\ (row.raw_fantasy_points < baseline <=> row.vor < 0)
               /\ (row.raw_fantasy_points = 150 /\ baseline = 110) => row.vor = 40

\* the 150-point RB of the 30-RB scenario against the 110 baseline, with
\* players at and below the baseline
C6_Witness ==
    /\ BaselinesComputed
    /\ Len(cur_df) = Len(ScenarioTable)
    /\ cur_baselines["RB"] = 110
    /\ \E i, j, k \in 1..Len(cur_df) :
          /\ "vor" \in DOMAIN cur_df[i]
          /\ cur_df[i].raw_fantasy_points = 150 /\ cur_df[i].vor = 40
          /\ cur_df[j].vor = 0
          /\ cur_df[k].vor < 0

OpportunityCostDone == entry = "vbd" /\ pc \in {"optimal_value", "done"}

\* C7: within each position, in the descending-vor list the function used,
\* every player but the last has opportunity_cost = own vor - next vor, and
\* the lowest-VOR player (the sole player of a position included) has 0
C7_OpportunityCost ==
    OpportunityCostDone =>
        \A position \in Positions :
            LET pos_df == cur_order[position]
                n == Len(pos_df)
            IN /\ { pos_df[k] : k \in 1..n } = RowsOf(cur_df, position)
               /\ n = Cardinality(RowsOf(cur_df, position))
               /\ \A k \in 1..(n - 1) :
                     /\ cur_df[pos_df[k]].vor >= cur_df[pos_df[k + 1]].vor
                     /\ cur_df[pos_df[k]].opportunity_cost =
                            cur_df[pos_df[k]].vor - cur_df[pos_df[k + 1]].vor
               /\ n > 0 => cur_df[pos_df[n]].opportunity_cost = 0
               /\ \A i \in RowsOf(cur_df, position) :
                     (\A j \in RowsOf(cur_df, position) : cur_df[i].vor <= cur_df[j].vor)
                         => cur_df[i].opportunity_cost = 0

\* a position of two players with a drop-off, and a one-player position
C7_Witness ==
    /\ OpportunityCostDone
    /\ \E i, j, k \in 1..Len(cur_df) :
          /\ cur_df[i].position = cur_df[j].position
          /\ cur_df[i].vor > cur_df[j].vor
          /\ cur_df[i].opportunity_cost = cur_df[i].vor - cur_df[j].vor
          /\ cur_df[j].opportunity_cost = 0
          /\ RowsOf(cur_df, cur_df[k].position) = {k}
          /\ cur_df[k].opportunity_cost = 0

InUnit(x) == x \in 0..100

\* C8: once the risk and consistency stages have run, the stored risk_score,
\* upside_potential and consistency_score of every player lie in [0, 1]
C8_BoundedHeuristics ==
    /\ pc \in {"bayesian", "consistency", "score", "done"} /\ entry \in {"main", "unified"} =>
          \A i \in 1..Len(cur_df) :
              InUnit(cur_df[i].risk_score) /\ InUnit(cur_df[i].upside_potential)
    /\ pc \in {"score", "done"} /\ entry \in {"main", "unified"} =>
          \A i \in 1..Len(cur_df) : InUnit(cur_df[i].consistency_score)

\* a player whose accumulated consistency score is below 0 and is stored as 0
C8_Witness ==
    /\ pc = "done"
    /\ entry = "unified"
    /\ \E i \in 1..Len(cur_df) :
          /\ consistency_score_of(cur_df[i]) < 0
          /\ cur_df[i].consistency_score = 0
          /\ cur_df[i].risk_score > 0
          /\ cur_df[i].upside_potential > 0

\* --- entity resolution -----------------------------------------------------

Matched == rs_fn = "match_players_to_adp" /\ rs_pc = "done"

\* the ADP records that pass validation
ValidAdp ==
    { k \in DOMAIN rs_adp :
        ~isna(rs_adp[k].adp) /\ rs_adp[k].adp >= 10 /\ rs_adp[k].adp <= 2000 }
AdpNames == { rs_adp[k].normalized_name : k \in ValidAdp }
AdpsOf(name) == { rs_adp[k].adp : k \in { j \in ValidAdp : rs_adp[j].normalized_name = name } }

\* the normalised name of the board player behind a result row
NormalizedBoardName == [player_id \in QueryNames |-> normalize_player_name(Str(player_id))]
QueryOf(row) == NormalizedBoardName[row.player_id]

\* the scorer's value, and the best value over a set of candidates
Score(query, choice) == IF query = choice THEN 100 ELSE rs_sim[<<query, choice>>]
BestScore(query, choices) ==
    CHOOSE s \in { Score(query, c) : c \in choices } :
        \A c \in choices : Score(query, c) <= s
BestChoices(query, choices) ==
    { c \in choices : Score(query, c) = BestScore(query, choices) }

RankGap(row, adp) == IF 10 * row.unified_rank >= adp THEN 10 * row.unified_rank - adp
                     ELSE adp - 10 * row.unified_rank

\* the rows of a finished match_players_to_adp call, each with its query
ResultRows == { <<rs_result[k], QueryOf(rs_result[k])>> : k \in DOMAIN rs_result }

\* C2: a big-board player whose normalised name equals the normalised name of
\* a valid ADP record is matched with that name's ADP whatever the distance
\* between rank and ADP, and the scorer is never asked about the player
C2_ExactMatchAccepted ==
    Matched =>
        /\ Len(rs_result) = Len(rs_board)
        /\ \A rq \in ResultRows :
              rq[2] \in AdpNames =>
                  /\ rq[1].matched
                  /\ rq[1].adp \in AdpsOf(rq[2])
                  /\ rq[2] \notin rs_scored

\* an exact match more than 100 places from its ADP, next to a player the
\* scorer was asked about
C2_Witness ==
    /\ Matched
    /\ rs_scored # {}
    /\ \E rq \in ResultRows :
          /\ rq[2] \in AdpNames
          /\ rq[1].matched
          /\ RankGap(rq[1], rq[1].adp) > 1000

NameMapped == rs_fn = "build_name_map" /\ rs_pc = "done"
Merged == rs_fn = "fuzzy_merge" /\ rs_pc = "done"
ChoicesNorm == { normalize_name(Str(rs_choices[k])) : k \in DOMAIN rs_choices }

\* C9: a query without an exact match is resolved only to a candidate of the
\* highest similarity score and only when that score is at least the stage's
\* threshold (95 for ADP matching, 90 for the name map, 85 for the merge);
\* below the threshold it stays unresolved
C9_BestAboveThreshold ==
    /\ Matched =>
          \A rq \in ResultRows :
              rq[2] \notin AdpNames =>
                  /\ rq[1].matched =>
                        /\ AdpNames # {}
                        /\ BestScore(rq[2], AdpNames) >= 95
                        /\ \E c \in BestChoices(rq[2], AdpNames) : rq[1].adp \in AdpsOf(c)
                  /\ (AdpNames = {} \/ BestScore(rq[2], AdpNames) < 95) =>
                        ~rq[1].matched /\ isna(rq[1].adp)
    /\ NameMapped =>
          \A k \in DOMAIN rs_queries :
              LET query == normalize_name(Str(rs_queries[k]))
                  got == rs_result[rs_queries[k]]
              IN /\ got # None =>
                        /\ BestScore(query, ChoicesNorm) >= 90
                        /\ \E j \in DOMAIN rs_choices :
                              /\ rs_choices[j] = got
                              /\ normalize_name(Str(got)) \in BestChoices(query, ChoicesNorm)
                 /\ BestScore(query, ChoicesNorm) < 90 => got = None
    /\ Merged =>
          \A k \in DOMAIN rs_queries :
              LET query == normalize_name(Str(rs_queries[k]))
                  got == rs_result.matched_norm_name[k]
              IN /\ got # None =>
                        /\ BestScore(query, ChoicesNorm) >= 85
                        /\ got \in BestChoices(query, ChoicesNorm)
                 /\ BestScore(query, ChoicesNorm) < 85 => got = None

\* one ADP match taken at a best score of exactly 95 and, in the same call,
\* one player left unmatched at a best score of 94
C9_Witness ==
    /\ Matched
    /\ \E rq \in ResultRows :
          /\ rq[2] \notin AdpNames /\ AdpNames # {}
          /\ rq[1].matched /\ BestScore(rq[2], AdpNames) = 95
    /\ \E rq \in ResultRows :
          /\ rq[2] \notin AdpNames /\ AdpNames # {}
          /\ ~rq[1].matched /\ BestScore(rq[2], AdpNames) = 94

\* C10: an approximate ADP match whose rank is more than 50 places from the
\* matched ADP is kept only at a similarity of at least 98; with a lower
\* similarity the player is left unmatched, with no ADP
C10_DivergentNeedsStrict ==
    Matched =>
        \A rq \in ResultRows :
            rq[2] \notin AdpNames =>
                /\ (rq[1].matched /\ RankGap(rq[1], rq[1].adp) > 500) =>
                      BestScore(rq[2], AdpNames) >= 98
                /\ ( /\ AdpNames # {}
                     /\ BestScore(rq[2], AdpNames) < 98
                     /\ \A c \in BestChoices(rq[2], AdpNames) :
                           \A adp \in AdpsOf(c) : RankGap(rq[1], adp) > 500 ) =>
                      ~rq[1].matched /\ isna(rq[1].adp)
                /\ ( /\ AdpNames # {}
                     /\ BestScore(rq[2], AdpNames) >= 95
                     /\ \A c \in BestChoices(rq[2], AdpNames) :
                           \A adp \in AdpsOf(c) : RankGap(rq[1], adp) <= 500 ) =>
                      rq[1].matched

\* in one call: a 95-point match across more than 50 places rejected and a
\* 98-point one across more than 50 places kept
C10_Witness ==
    /\ Matched
    /\ \E rq \in ResultRows :
          /\ rq[2] \notin AdpNames /\ AdpNames # {}
          /\ BestScore(rq[2], AdpNames) = 95
          /\ ~rq[1].matched
    /\ \E rq \in ResultRows :
          /\ rq[2] \notin AdpNames /\ rq[1].matched
          /\ BestScore(rq[2], AdpNames) = 98
          /\ RankGap(rq[1], rq[1].adp) > 500

\* the columns entity resolution adds to a board row
ResolutionColumns(row) ==
    [col \in DOMAIN row \ DOMAIN BoardColumns(row) |-> row[col]]

\* the approximate-match players of a finished call whose best candidate is
\* below the threshold (or absent)
NoCandidateRows ==
    { rq \in ResultRows :
        /\ rq[2] \notin AdpNames
        /\ (AdpNames = {} \/ BestScore(rq[2], AdpNames) < 95) }

\* ... and those whose best candidate passed the threshold and was dropped
\* for its rank divergence
DivergenceRejectedRows ==
    { rq \in ResultRows :
        /\ rq[2] \notin AdpNames /\ AdpNames # {}
        /\ BestScore(rq[2], AdpNames) >= 95
        /\ ~rq[1].matched }

\* C11: in the result of match_players_to_adp a player without a candidate
\* above the threshold can be told apart from a player whose approximate
\* match was rejected for rank divergence: the columns resolution adds differ
C11_UnresolvedKindsDiffer ==
    Matched =>
        \A none \in NoCandidateRows, rejected \in DivergenceRejectedRows :
            ToString(ResolutionColumns(none[1])) # ToString(ResolutionColumns(rejected[1]))

\* C11, the part that holds: both kinds are unresolved, neither is a match
C11_BothUnresolved ==
    Matched =>
        \A rq \in NoCandidateRows \cup DivergenceRejectedRows :
            ~rq[1].matched /\ isna(rq[1].adp)

\* --- the market comparison ------------------------------------------------

ComparisonSheet == rs_fn = "create_adp_comparison_sheet" /\ rs_pc = "done"

\* the rows of the sheet whose player has no ADP record of its name and no
\* candidate at or above the threshold
NoCandidate(row) ==
    /\ QueryOf(row) \notin AdpNames
    /\ (AdpNames = {} \/ BestScore(QueryOf(row), AdpNames) < 95)

\* C12: a player without an acceptable ADP candidate (every player when no
\* ADP record is left) has NaN adp, rank_difference and
\* league_size_adjusted_diff and matched = False, stands after every matched
\* player of the sheet, and is 'purple' / 'Not in ADP', a tier no matched
\* player gets; the call returns a row for every player of the board
C12_UnresolvedLastAndPurple ==
    /\ (rs_fn = "create_adp_comparison_sheet" /\ rs_board # <<>>) => rs_pc # "raised"
    /\ ComparisonSheet =>
          /\ Len(rs_result) = Len(rs_board)
          /\ \A i \in DOMAIN rs_result :
                LET row == rs_result[i]
                IN /\ NoCandidate(row) => ~row.matched
                   /\ ~row.matched =>
                         /\ isna(row.adp)
                         /\ isna(row.rank_difference)
                         /\ isna(row.league_size_adjusted_diff)
                         /\ row.value_color = "purple"
                         /\ row.value_recommendation = "Not in ADP"
                         /\ \A j \in DOMAIN rs_result : rs_result[j].matched => j < i
                   /\ row.matched =>
                         /\ row.value_color # "purple"
                         /\ row.value_recommendation # "Not in ADP"

\* a sheet with a matched player and, after it, a player without a candidate
\* who was first on the board
C12_Witness ==
    /\ ComparisonSheet
    /\ Len(rs_result) = 2
    /\ rs_result[1].matched
    /\ NoCandidate(rs_result[2])
    /\ rs_result[2].value_color = "purple"
    /\ rs_board[1].player_id = rs_result[2].player_id

\* a sheet made from an ADP table none of whose records is valid
C12_NoValidRecord ==
    /\ ComparisonSheet
    /\ AdpNames = {}
    /\ rs_adp # <<>>
    /\ Len(rs_result) = 2
    /\ \A i \in DOMAIN rs_result : rs_result[i].value_recommendation = "Not in ADP"

Validated == rs_fn = "validate_adp_data" /\ rs_pc = "done"

\* C13: after the cleaning step no two records of distinct players in the
\* matchable pool have the same adp (equal values are spread by a fixed step
\* in original order)
C13_NoEqualAdpAfterCleaning ==
    Validated =>
        \A i, j \in DOMAIN rs_result :
            rs_result[i].player_name # rs_result[j].player_name =>
                rs_result[i].adp # rs_result[j].adp

InRange(adp) == ~isna(adp) /\ adp >= 10 /\ adp <= 2000

\* C14: validate_adp_data returns exactly the records with 1 <= adp <= 200,
\* 1 and 200 included, in their original order, and does not raise; no
\* player of a comparison is given an adp outside [1, 200]
C14_OutOfRangeQuarantined ==
    /\ rs_fn = "validate_adp_data" => rs_pc # "raised"
    /\ Validated => rs_result = SelectSeq(rs_adp, LAMBDA record : InRange(record.adp))
    /\ ComparisonSheet =>
          \A i \in DOMAIN rs_result :
              /\ rs_result[i].matched => InRange(rs_result[i].adp)
              /\ ~rs_result[i].matched => isna(rs_result[i].adp)

\* a frame that loses a record and keeps one at a boundary
C14_Witness ==
    /\ Validated
    /\ Len(rs_result) < Len(rs_adp)
    /\ \E i \in DOMAIN rs_result : rs_result[i].adp \in {10, 2000}

\* a sheet with a matched player whose ADP table holds an out-of-range record
C14_SheetWitness ==
    /\ ComparisonSheet
    /\ \E i \in DOMAIN rs_result : rs_result[i].matched
    /\ \E k \in DOMAIN rs_adp : ~InRange(rs_adp[k].adp)

\* --- the value tiers -------------------------------------------------------

Colored == tv_pc \in {"colored", "done"}
Recommended == tv_pc = "done"

\* C15: an adjusted difference of -1.2 is in the strongest buy tier: 'teal',
\* 'Strong Buy'
C15_MinusOnePointTwoIsTeal ==
    Recommended =>
        \A i \in DOMAIN tv_column :
            (~isna(tv_column[i].diff) /\ tv_column[i].diff = Frac(-12, 10)) =>
                tv_color[i] = "teal" /\ tv_recommendation[i] = "Strong Buy"

\* the tiers from the strongest buy to the strongest avoid
TierOrder == <<"teal", "green", "light_green", "yellow", "orange", "red">>
TierIndex(color) == CHOOSE k \in DOMAIN TierOrder : TierOrder[k] = color

\* d1 <= d2 for two doubles that are not NaN
DiffAtMost(c1, c2) ==
    \/ c1.diff.num * c2.diff.den < c2.diff.num * c1.diff.den
    \/ c1.diff.num * c2.diff.den = c2.diff.num * c1.diff.den /\ c1.side <= c2.side

\* C16: every difference that is not NaN gets exactly one of the six tiers,
\* a smaller difference never a weaker buy tier than a larger one; NaN, and
\* only NaN, gets 'purple'; and every colour has one recommendation label of
\* its own
C16_TiersPartition ==
    /\ Colored =>
          /\ Len(tv_color) = Len(tv_column)
          /\ \A i \in DOMAIN tv_column :
                /\ isna(tv_column[i].diff) <=> tv_color[i] = "purple"
                /\ ~isna(tv_column[i].diff) =>
                      \E k \in DOMAIN TierOrder : tv_color[i] = TierOrder[k]
          /\ \A i, j \in DOMAIN tv_column :
                (/\ ~isna(tv_column[i].diff) /\ ~isna(tv_column[j].diff)
                 /\ DiffAtMost(tv_column[i], tv_column[j]))
                    => TierIndex(tv_color[i]) <= TierIndex(tv_color[j])
    /\ Recommended =>
          /\ Len(tv_recommendation) = Len(tv_color)
          /\ \A i \in DOMAIN tv_color : tv_recommendation[i] # "Unknown"
          /\ \A i, j \in DOMAIN tv_color :
                tv_color[i] = tv_color[j] <=> tv_recommendation[i] = tv_recommendation[j]

\* two differences that are both -0.8 as numbers, one rounded onto the
\* threshold and one above it, in neighbouring tiers
C16_Witness ==
    /\ Recommended
    /\ Len(tv_column) = 2
    /\ ~isna(tv_column[1].diff) /\ ~isna(tv_column[2].diff)
    /\ tv_column[1].diff = tv_column[2].diff
    /\ tv_color = <<"green", "light_green">>
    /\ tv_recommendation = <<"Buy", "Slight Buy">>

\* --- degenerate aggregates -------------------------------------------------

OptimalValueDone == entry = "vbd" /\ pc = "done"

AllEqual(df, col) == \A i, j \in 1..Len(df) : df[i][col] = df[j][col]

IsZero(v) == ~isna(v) /\ v.num = 0

\* C17: after calculate_optimal_value, when every player has the same vor
\* (opportunity_cost) every vor_normalized (oc_normalized) is 0, and
\* optimal_value is a number
C17_ZeroWidthRangeIsZero ==
    OptimalValueDone =>
        \A i \in 1..Len(cur_df) :
            /\ AllEqual(cur_df, "vor") => IsZero(cur_df[i].vor_normalized)
            /\ AllEqual(cur_df, "opportunity_cost") => IsZero(cur_df[i].oc_normalized)
            /\ ~isna(cur_df[i].optimal_value)

\* C17, where the ranges have a width: the normalised columns lie in [0, 1]
\* and optimal_value is 0.7 * vor_normalized + 0.3 * oc_normalized
C17_NormalizedWithinUnit ==
    OptimalValueDone =>
        \A i \in 1..Len(cur_df) :
            LET row == cur_df[i]
            IN /\ ~AllEqual(cur_df, "vor") =>
                     /\ 0 <= row.vor_normalized.num
                     /\ row.vor_normalized.num <= row.vor_normalized.den
               /\ ~AllEqual(cur_df, "opportunity_cost") =>
                     /\ 0 <= row.oc_normalized.num
                     /\ row.oc_normalized.num <= row.oc_normalized.den

MetricsDone ==
    entry \in {"main", "unified"} /\ pc \notin {"vor_scarcity", "advanced_metrics"}

\* the rows of the position of row i
Group(i) == { j \in 1..Len(cur_df) : cur_df[j].position = cur_df[i].position }

\* C18: after calculate_advanced_statistical_metrics a player who is alone in
\* its position, or whose position has a single raw_fantasy_points value, has
\* z_score 0
C18_DegenerateZScoreIsZero ==
    MetricsDone =>
        \A i \in 1..Len(cur_df) :
            (\A j \in Group(i) : cur_df[j].raw_fantasy_points = cur_df[i].raw_fantasy_points)
                => (~isna(cur_df[i].z_score) /\ cur_df[i].z_score.dev = 0)

\* C19: the returned board is in unified_rank order and players of equal
\* unified_rank stand in the order in which they entered (idx)
C19_TiesInIngestionOrder ==
    Ranked =>
        \A i, j \in 1..Len(cur_df) :
            i < j =>
                /\ cur_df[i].unified_rank <= cur_df[j].unified_rank
                /\ cur_df[i].unified_rank = cur_df[j].unified_rank =>
                      cur_df[i].idx < cur_df[j].idx

\* C19, the part that holds: the board is in unified_rank order
C19_OrderedByRank ==
    Ranked =>
        \A i, j \in 1..Len(cur_df) :
            i < j => cur_df[i].unified_rank <= cur_df[j].unified_rank

\* --- main() ----------------------------------------------------------------

Returned == mn_pc = "returned"

\* C20: a run ends without a board only when the projection pool is empty,
\* and then the caller gets something a run that exported a board does not
\* give (a run that exports a board returns None, raises nothing, status 0)
C20_OnlyEmptyPoolHalts ==
    Returned =>
        /\ mn_board = "none" => mn_env.projections = "empty"
        /\ mn_env.projections = "empty" =>
              mn_board = "none" /\ mn_caller # ReturnedNone

\* C20, the part that holds: an empty projection pool ends the run without a
\* board, with an error message printed
C20_EmptyPoolEndsRun ==
    (Returned /\ mn_env.projections = "empty") =>
        /\ mn_board = "none"
        /\ mn_log = {"ERROR No player projections found"}

\* --- the normalisers, again -------------------------------------------------

\* C21: for a missing name (None or NaN) each normaliser returns the empty
\* string
C21_MissingNameIsEmpty ==
    (nm_calls = 1 /\ nm_arg.kind \in {"None", "NaN"}) => nm_val = <<>>

\* C21, the part that holds: normalize_player_name returns "" for None and NaN
C21_PlayerNameOfMissingIsEmpty ==
    (nm_calls = 1 /\ nm_fn = "normalize_player_name" /\ nm_arg.kind \in {"None", "NaN"})
        => nm_val = <<>>

\* --- the stages of calculate_unified_big_board_score ------------------------

InUnifiedStage ==
    /\ entry \in {"main", "unified"}
    /\ pc \in {"advanced_metrics", "risk", "bayesian", "consistency", "score"}

\* the row of the table that entered as row idx
RowOf(df, idx) == df[CHOOSE i \in 1..Len(df) : df[i].idx = idx]

\* is the value of a column after a stage the value before it; the
\* consistency_score of calculate_advanced_statistical_metrics is a
\* quotient, the one of calculate_consistency_metrics is in hundredths
SameValue(col, before, after) ==
    IF col = "consistency_score" /\ pc = "consistency"
    THEN ~isna(before) /\ 100 * before.num = after * before.den
    ELSE ToString(before) = ToString(after)

IdentityColumns == {"player_id", "team", "position", "raw_fantasy_points"}

\* C22: every stage keeps the players, keeps player_id, team, position and
\* raw_fantasy_points of each, and keeps every column written before it
C22_StagesAreAdditive ==
    [][InUnifiedStage =>
          /\ { cur_df'[i].idx : i \in 1..Len(cur_df') } = { cur_df[i].idx : i \in 1..Len(cur_df) }
          /\ Len(cur_df') = Len(cur_df)
          /\ \A i \in 1..Len(cur_df) :
                \A col \in DOMAIN cur_df[i] :
                    /\ col \in DOMAIN RowOf(cur_df', cur_df[i].idx)
                    /\ SameValue(col, cur_df[i][col], RowOf(cur_df', cur_df[i].idx)[col])]_vars

\* C22, the part that holds: the players and their identity columns are kept
C22_IdentityKept ==
    [][InUnifiedStage =>
          /\ { cur_df'[i].idx : i \in 1..Len(cur_df') } = { cur_df[i].idx : i \in 1..Len(cur_df) }
          /\ Len(cur_df') = Len(cur_df)
          /\ \A i \in 1..Len(cur_df) :
                \A col \in IdentityColumns :
                    RowOf(cur_df', cur_df[i].idx)[col] = cur_df[i][col]]_vars

ConsistencyDone == entry \in {"main", "unified"} /\ pc \in {"score", "done"}

\* C23: consistency_adjusted_value = raw_fantasy_points * (1 + 0.2 * c), c
\* being the consistency_score stored on the record (clamped to [0, 1], in
\* hundredths here)
C23_AdjustedValueUsesStoredScore ==
    ConsistencyDone =>
        \A i \in 1..Len(cur_df) :
            LET row == cur_df[i]
            IN 500 * row.consistency_adjusted_value.num
                 = row.raw_fantasy_points * (500 + row.consistency_score)
                     * row.consistency_adjusted_value.den

\* C23, the part that holds: the two agree whenever the accumulated score is
\* within [0, 1]
C23_AgreesWithinUnit ==
    ConsistencyDone =>
        \A i \in 1..Len(cur_df) :
            LET row == cur_df[i]
            IN (0 <= consistency_score_of(row) /\ consistency_score_of(row) <= 100) =>
                  500 * row.consistency_adjusted_value.num
                    = row.raw_fantasy_points * (500 + row.consistency_score)
                        * row.consistency_adjusted_value.den

-----------------------------------------------------------------------------
(* The composite score and vor_final.                                      *)

Scored == entry = "unified" /\ pc = "done"

PointsInput(row) ==
    Get(row, "efficiency_adjusted_points", Get(row, "raw_fantasy_points", 0))

SimulationColumns ==
    {"mc_mean", "mc_median", "mc_25th_percentile", "mc_75th_percentile",
     "mc_volatility", "mc_probability_above_avg", "mc_upside_potential"}

\* the inputs of the score other than vor_final
SameScoringInputs(a, b) ==
    /\ a.position = b.position
    /\ PointsInput(a) = PointsInput(b)
    /\ Get(a, "injury_weight", 100) = Get(b, "injury_weight", 100)
    /\ \A col \in SimulationColumns :
          /\ (col \in DOMAIN a) = (col \in DOMAIN b)
          /\ col \in DOMAIN a => a[col] = b[col]

VorOf(row) == Get(row, "vor_final", 0)

\* C24: of two players of one position with the same scoring inputs apart
\* from vor_final, the one with the lower vor_final has the strictly lower
\* unified_big_board_score, below replacement as well as above it.
C24_LowerVorLowerScore ==
    Scored =>
        \A i, j \in 1..Len(cur_df) :
            (SameScoringInputs(cur_df[i], cur_df[j]) /\ VorOf(cur_df[i]) < VorOf(cur_df[j]))
                => cur_df[i].unified_big_board_score < cur_df[j].unified_big_board_score

\* what the code does: the order is strict only when the higher vor_final
\* is above replacement; below replacement the scores are equal
C24_VorCountsAboveReplacement ==
    Scored =>
        \A i, j \in 1..Len(cur_df) :
            (SameScoringInputs(cur_df[i], cur_df[j]) /\ VorOf(cur_df[i]) < VorOf(cur_df[j]))
                => IF VorOf(cur_df[j]) > 0
                   THEN cur_df[i].unified_big_board_score < cur_df[j].unified_big_board_score
                   ELSE cur_df[i].unified_big_board_score = cur_df[j].unified_big_board_score

-----------------------------------------------------------------------------
(* The composite score of a record without simulated-outcome columns.      *)

NoSimulationColumns(row) == DOMAIN row \cap SimulationColumns = {}

\* the injury-adjusted point estimate with the defaults written out, in
\* 1/500 point
DefaultedPoints(row) ==
    (IF "efficiency_adjusted_points" \in DOMAIN row
        THEN row.efficiency_adjusted_points ELSE row.raw_fantasy_points)
    * (IF "injury_weight" \in DOMAIN row THEN 400 + row.injury_weight ELSE 500)

DefaultedVor(row) == IF "vor_final" \in DOMAIN row THEN row.vor_final ELSE 0

\* 0.34 * points + 0.75 + max(vor, 0) * weight * boost, in 1/1,000,000 point
DefaultedTotal(row) ==
    680 * DefaultedPoints(row) + 750000
        + Max(DefaultedVor(row), 0) * vor_weight(row.position) * scarcity_boost(row.position)

\* C25: a record without simulated-outcome columns is scored, and its score
\* is position_factor * (0.34 * points + 0.75 + max(vor, 0) * weight * boost),
\* points being the injury-adjusted estimate of efficiency_adjusted_points
\* (raw_fantasy_points when absent) with injury_weight 1.0 when absent and
\* vor_final 0 when absent.  The score is in 1/2,000,000 point, so it is
\* position_factor / 2 (in hundredths) times the total in 1/40,000 point.
C25_DefaultsGiveClosedForm ==
    Scored =>
        \A i \in 1..Len(cur_df) :
            NoSimulationColumns(cur_df[i]) =>
                /\ DefaultedTotal(cur_df[i]) % 25 = 0
                /\ position_factor(cur_df[i].position) % 2 = 0
                /\ cur_df[i].unified_big_board_score
                     = (position_factor(cur_df[i].position) \div 2)
                         * (DefaultedTotal(cur_df[i]) \div 25)

\* a scored record with none of the optional columns
C25_Witness ==
    /\ Scored
    /\ \E i \in 1..Len(cur_df) :
          DOMAIN cur_df[i] \cap (SimulationColumns
              \cup {"efficiency_adjusted_points", "injury_weight", "vor_final"}) = {}

-----------------------------------------------------------------------------
(* The composite score and the columns it does not read.                   *)

\* all the inputs of the score
SameScoreInputs(a, b) ==
    /\ SameScoringInputs(a, b)
    /\ ("vor_final" \in DOMAIN a) = ("vor_final" \in DOMAIN b)
    /\ VorOf(a) = VorOf(b)

\* the columns the statistical and heuristic stages attach
AnnotationColumns ==
    {"z_score", "position_percentile", "risk_score", "upside_potential", "sharpe_ratio",
     "risk_adjusted_value", "bayesian_projection", "projection_uncertainty",
     "bayesian_value", "consistency_score", "consistency_adjusted_value"}

DiffersIn(a, b, col) == ToString(a[col]) # ToString(b[col])

\* C28: two players of one pool with the same position, point estimate
\* (efficiency_adjusted_points, or raw_fantasy_points when absent),
\* injury_weight, simulated-outcome columns and vor_final have the same
\* unified_big_board_score and unified_rank, whatever their player_id, team
\* and annotations.
C28_ScoreIgnoresIdentityAndAnnotations ==
    Scored =>
        \A i, j \in 1..Len(cur_df) :
            SameScoreInputs(cur_df[i], cur_df[j]) =>
                /\ cur_df[i].unified_big_board_score = cur_df[j].unified_big_board_score
                /\ cur_df[i].unified_rank = cur_df[j].unified_rank

\* two such players with different names, teams, raw points and annotations
C28_Witness ==
    /\ Scored
    /\ Len(cur_df) = 2
    /\ SameScoreInputs(cur_df[1], cur_df[2])
    /\ cur_df[1].player_id # cur_df[2].player_id
    /\ cur_df[1].team # cur_df[2].team
    /\ cur_df[1].raw_fantasy_points # cur_df[2].raw_fantasy_points
    /\ \A col \in {"z_score", "risk_adjusted_value", "bayesian_value", "consistency_score"} :
          DiffersIn(cur_df[1], cur_df[2], col)

-----------------------------------------------------------------------------
(* A record whose player_id is not a string.                               *)

CallEnded == entry = "unified" /\ pc \in {"done", "raised"}

HasMalformedRow == \E i \in 1..Len(cur_df) : isna(cur_df[i].player_id)

\* C26: a failure local to one player does not abort the pool: when the
\* call of calculate_unified_big_board_score has ended, every player of the
\* pool has a unified_big_board_score and a unified_rank, also when the
\* name-pattern test met a player_id that is not a string.
C26_EveryPlayerScored ==
    CallEnded =>
        /\ pc = "done"
        /\ \A i \in 1..Len(cur_df) :
              {"unified_big_board_score", "unified_rank"} \subseteq DOMAIN cur_df[i]

\* what the code does: the call raises exactly for the pools that hold such
\* a record, and scores every player of the others
C26_RaisesOnMalformedRow ==
    CallEnded =>
        IF HasMalformedRow
        THEN pc = "raised"
             /\ \A i \in 1..Len(cur_df) : "unified_big_board_score" \notin DOMAIN cur_df[i]
        ELSE pc = "done"
             /\ \A i \in 1..Len(cur_df) :
                   {"unified_big_board_score", "unified_rank"} \subseteq DOMAIN cur_df[i]

-----------------------------------------------------------------------------
(* The shape of a normalized player name.                                  *)

PlayerNameReturned == nm_calls >= 1 /\ nm_fn = "normalize_player_name"

HasChar(s, chars) == \E k \in 1..Len(s) : s[k] \in chars

HasUpperCase(s) == \E k \in 1..Len(s) : \E u \in 1..26 : s[k] = UpperCase[u]

HasWhitespaceRun(s) ==
    \E k \in 1..(Len(s) - 1) : s[k] \in Whitespace /\ s[k + 1] \in Whitespace

HasOuterWhitespace(s) == s # <<>> /\ (s[1] \in Whitespace \/ s[Len(s)] \in Whitespace)

\* C27: the output of normalize_player_name is in lower case, holds no
\* period, comma or hyphen, no run of two or more whitespace characters and
\* no leading or trailing whitespace.
C27_OutputIsCanonical ==
    PlayerNameReturned =>
        /\ ~HasUpperCase(nm_val)
        /\ ~HasChar(nm_val, {".", ",", "-"})
        /\ ~HasWhitespaceRun(nm_val)
        /\ ~HasOuterWhitespace(nm_val)

\* what the code guarantees: lower case and no period, comma or hyphen
C27_LowerCaseNoPunctuation ==
    PlayerNameReturned => ~HasUpperCase(nm_val) /\ ~HasChar(nm_val, {".", ",", "-"})

-----------------------------------------------------------------------------
(* match_players_to_adp and the rows of the board.                         *)

\* the one-to-one assignments of result rows to board rows
RowAssignments ==
    { p \in [DOMAIN rs_result -> DOMAIN rs_board] :
        \A a, b \in DOMAIN rs_result : p[a] = p[b] => a = b }

KeptColumns == {"player_id", "position", "unified_rank", "unified_big_board_score"}

\* a matched row: adp present, rank_difference = unified_rank - adp (tenths),
\* league_size_adjusted_diff = rank_difference / league_size
IsMatchedRow(row, league_size) ==
    /\ row.matched = TRUE
    /\ ~isna(row.adp)
    /\ row.rank_difference = 10 * row.unified_rank - row.adp
    /\ ~isna(row.league_size_adjusted_diff)
    /\ row.league_size_adjusted_diff.num * 10 * league_size
         = row.rank_difference * row.league_size_adjusted_diff.den

IsUnmatchedRow(row) ==
    /\ row.matched = FALSE
    /\ isna(row.adp) /\ isna(row.rank_difference) /\ isna(row.league_size_adjusted_diff)

\* C29: for a non-empty board and any ADP table the result of
\* match_players_to_adp has exactly one row per board row, with that row's
\* player_id, position, unified_rank and unified_big_board_score, and every
\* row is a matched row or an unmatched row.
C29_BoardConserved ==
    Matched =>
        /\ Len(rs_result) = Len(rs_board)
        /\ \E p \in RowAssignments :
              \A k \in DOMAIN rs_result :
                 \A col \in KeptColumns : rs_result[k][col] = rs_board[p[k]][col]
        /\ \A k \in DOMAIN rs_result :
              IF rs_result[k].matched
              THEN IsMatchedRow(rs_result[k], DefaultLeagueSize)
              ELSE IsUnmatchedRow(rs_result[k])

\* a board of two players of which one is matched and one is not
C29_Witness ==
    /\ Matched
    /\ Len(rs_board) = 2
    /\ \E a, b \in DOMAIN rs_result :
          /\ rs_result[a].matched /\ rs_result[a].rank_difference # 0
          /\ ~rs_result[b].matched

-----------------------------------------------------------------------------
(* The stages of main() after the points loop.                             *)

CompletedStages == { stage \in AnalysisStages : mn_env[stage] = "ok" }

\* C30: from the efficiency stage on, whichever analysis stages raise, the
\* run ends with the unified board exported, or, when the unified step
\* raises, with the rank_players board exported; main() returns and no
\* exception reaches the caller.  The ADP download and rank_players are
\* taken to work.
C30_FallbackChain ==
    (mn_pc = "efficiency" /\ mn_env.adp_sheet = "ok" /\ mn_env.fallback = "ok")
        ~> (/\ Returned
            /\ mn_caller = ReturnedNone
            /\ mn_board = IF mn_env.unified = "ok" THEN "unified" ELSE "fallback")

\* C30, the parts that hold: every run of main() ends, and no exception
\* reaches the caller
C30_Terminates ==
    (mn_pc = "download") ~> (Returned /\ mn_caller = ReturnedNone)

\* the unified step is given the table of the analysis stages that
\* completed, whichever of them raised
C30_FailedStageKeepsTable ==
    mn_pc = "unified" =>
        /\ mn_table = CompletedStages
        /\ ("ERROR Failed to analyze trends" \in mn_log) = (mn_env.trends = "raises")

\* what the code does: export_to_excel raises in both places, so a run that
\* reaches the unified step ends in the outer handler without a board
C30_NoBoardWritten ==
    Returned =>
        /\ mn_board = "none"
        /\ "SUCCESS" \notin mn_log
        /\ "ERROR Failed to create unified big board" \in mn_log => "FATAL ERROR" \in mn_log
====
